---------------------------- MODULE Spec2Model ----------------------------
(***************************************************************************)
(* Flaxos spaceship sim: the demo controller (server/demo_server_v2.py),   *)
(* the legacy integrator (sim/physics.py) and the sensors manager          *)
(* (sim/sensors.py) as a state machine.                                    *)
(*                                                                         *)
(* Fixed-point representation of the program's floats:                     *)
(*   time      deciseconds           (dt = 0.1 s is 1)                     *)
(*   throttle  thousandths           (1.0 is 1000)                         *)
(*   angle     millidegrees          (360 deg is 360000)                   *)
(*   rate      millidegrees / s                                            *)
(*   length    millimetres, speed mm/s; sensor ranges metres               *)
(*   strength, signature, sensitivity, ecm: thousandths                    *)
(* Divisions round toward minus infinity.                                  *)
(***************************************************************************)
EXTENDS Integers, Sequences, FiniteSets, TLC

VARIABLES
    sim_time,            \* DemoSimControllerV2.sim_time
    ships,               \* DemoSimControllerV2.ships (list of ship dicts)
    projectiles,         \* DemoSimControllerV2.projectiles
    next_projectile_id,  \* DemoSimControllerV2._next_projectile_id
    sensors,             \* DemoSimControllerV2.sensors (a SensorsManager)
    running,             \* DemoSimControllerV2._running
    loop_alive,          \* whether the thread running _loop is still alive
    last,                \* the last call made on the controller and its reply
    calls,               \* how many handler calls request threads have made
    requests             \* the request threads: where each stands inside a
                         \* handler, its locals, the ids it has been returned

vars == <<sim_time, ships, projectiles, next_projectile_id, sensors, running, loop_alive, last, calls, requests>>

(***************************************************************************)
(* Bounds of the model.                                                    *)
(***************************************************************************)
MaxTime == 2
MaxCalls == 2
MaxHelmTime == 1
MaxAutopilotTime == 1
MaxEvents == 5
MaxElapses == 2

(***************************************************************************)
(* Python values that reach float(), and dicts.                            *)
(***************************************************************************)
Num(n) == [k |-> "num", n |-> n]
NumStr(n) == [k |-> "numstr", n |-> n]
BadStr == [k |-> "badstr", n |-> 0]
NoneV == [k |-> "none", n |-> 0]

\* float(c) returns for ints, floats and numeric strings, and raises otherwise
FloatOk(c) == c.k \in {"num", "numstr"}
Float(c) == c.n

\* isinstance(c, (int, float))
IsNumber(c) == c.k = "num"

\* d.get(key, default) on a dict modelled as a function
Get(d, key, default) == IF key \in DOMAIN d THEN d[key] ELSE default

EmptyDict == [x \in {} |-> 0]

Min(a, b) == IF a < b THEN a ELSE b
Max(a, b) == IF a > b THEN a ELSE b
Abs(a) == IF a < 0 THEN -a ELSE a

\* max(lo, min(hi, x))
Clamp(x, lo, hi) == Max(lo, Min(hi, x))

(***************************************************************************)
(* Fixed-point numerics standing for the math module.                      *)
(***************************************************************************)
\* 1000 * sin(d degrees), d = 0..90
SinTab ==
    <<0, 17, 35, 52, 70, 87, 105, 122, 139, 156, 174, 191, 208, 225, 242, 259,
      276, 292, 309, 326, 342, 358, 375, 391, 407, 423, 438, 454, 469, 485, 500,
      515, 530, 545, 559, 574, 588, 602, 616, 629, 643, 656, 669, 682, 695, 707,
      719, 731, 743, 755, 766, 777, 788, 799, 809, 819, 829, 839, 848, 857, 866,
      875, 883, 891, 899, 906, 914, 921, 927, 934, 940, 946, 951, 956, 961, 966,
      970, 974, 978, 982, 985, 988, 990, 993, 995, 996, 998, 999, 999, 1000, 1000>>

\* 1000 * tan((i - 1/2) degrees), i = 1..45
TanTab ==
    <<9, 26, 44, 61, 79, 96, 114, 132, 149, 167, 185, 203, 222, 240, 259, 277,
      296, 315, 335, 354, 374, 394, 414, 435, 456, 477, 499, 521, 543, 566, 589,
      613, 637, 662, 687, 713, 740, 767, 795, 824, 854, 885, 916, 949, 983>>

\* 1000 * sin of a whole number of degrees, 0..360
SinDeg(d) ==
    IF d <= 90 THEN SinTab[d + 1]
    ELSE IF d <= 180 THEN SinTab[180 - d + 1]
    ELSE IF d <= 270 THEN -SinTab[d - 180 + 1]
    ELSE -SinTab[360 - d + 1]

\* 1000 * math.sin(math.radians(a)), a in millidegrees, interpolated
SinMilli(a) ==
    LET m == a % 360000
        d == m \div 1000
        f == m % 1000
    IN SinDeg(d) + ((SinDeg(d + 1) - SinDeg(d)) * f) \div 1000

\* 1000 * math.cos(math.radians(a))
CosMilli(a) == SinMilli(a + 90000)

\* the whole number of degrees nearest to atan(r / 1000), 0 <= r <= 1000
AtanDeg(r) == Cardinality({i \in 1..45 : TanTab[i] <= r})

\* 1000 * a / b for 0 <= a <= b, 0 < b, without leaving 32 bits
RatioMilli(a, b) ==
    IF b > 2000000 THEN a \div (b \div 1000) ELSE (1000 * a) \div b

\* math.degrees(math.atan2(dy, dx)) in millidegrees, (-180000, 180000]
Atan2Mdeg(dy, dx) ==
    LET ax == Abs(dx)
        ay == Abs(dy)
        phi == IF ax = 0 /\ ay = 0 THEN 0
               ELSE IF ax >= ay THEN 1000 * AtanDeg(RatioMilli(ay, ax))
               ELSE 90000 - 1000 * AtanDeg(RatioMilli(ax, ay))
    IN IF dx >= 0 /\ dy >= 0 THEN phi
       ELSE IF dx < 0 /\ dy >= 0 THEN 180000 - phi
       ELSE IF dx < 0 THEN IF phi = 0 THEN 180000 ELSE phi - 180000
       ELSE -phi

RECURSIVE SqrtIter(_, _)
SqrtIter(n, x) ==
    CHOOSE r \in {IF y >= x THEN x ELSE SqrtIter(n, y) : y \in {(x + n \div x) \div 2}} : TRUE

\* floor of math.sqrt(n)
ISqrt(n) == IF n <= 0 THEN 0 ELSE SqrtIter(n, n)

\* math.sqrt(x*x + y*y + z*z), scaled down first where the squares would
\* leave 32 bits
Len3(v) ==
    LET m == Max(Abs(v[1]), Max(Abs(v[2]), Abs(v[3])))
        s == m \div 20000 + 1
        a == v[1] \div s
        b == v[2] \div s
        c == v[3] \div s
    IN s * ISqrt(a * a + b * b + c * c)

(***************************************************************************)
(* Python values of the control inputs.                                    *)
(***************************************************************************)
\* a list or tuple of components
ListV(items) == [k |-> "list", items |-> items]
\* a value that is no list, tuple, number or dict (None, a string)
OtherV == [k |-> "other", items |-> <<>>]
\* a dict with some of the keys yaw, pitch, roll
DictV(d) == [k |-> "dict", d |-> d]

\* the components of a thrust value: [0.0, 0.0, 0.0] replaces a value that
\* is no list or tuple
ThrustList(thrust_vector) ==
    IF thrust_vector.k = "list" THEN thrust_vector.items ELSE <<>>

\* zero-padding or truncation to 3 components
Pad3(thrust) ==
    IF Len(thrust) < 3
    THEN thrust \o [j \in 1..(3 - Len(thrust)) |-> Num(0)]
    ELSE SubSeq(thrust, 1, 3)

\* the yaw, pitch and roll rates of a rotation value; ok is FALSE where a
\* float() raises
RotationRates(rotation_input_deg_s) ==
    IF IsNumber(rotation_input_deg_s)
    THEN [ok |-> TRUE, yaw |-> Float(rotation_input_deg_s), pitch |-> 0, roll |-> 0]
    ELSE IF rotation_input_deg_s.k = "dict"
    THEN LET y == Get(rotation_input_deg_s.d, "yaw", Num(0))
             p == Get(rotation_input_deg_s.d, "pitch", Num(0))
             r == Get(rotation_input_deg_s.d, "roll", Num(0))
         IN [ok |-> FloatOk(y) /\ FloatOk(p) /\ FloatOk(r),
             yaw |-> Float(y), pitch |-> Float(p), roll |-> Float(r)]
    ELSE [ok |-> TRUE, yaw |-> 0, pitch |-> 0, roll |-> 0]

(***************************************************************************)
(* Ships.                                                                  *)
(***************************************************************************)
DefaultMaxThrust == 1000000
DefaultMaxYawRate == 10000

\* ship.get("current_target_id") of a ship that has none
NoTarget == ""
\* controls without a "mode" key; mode=None in a call
NoMode == ""

DefaultPhysics ==
    ("max_main_thrust_newton" :> DefaultMaxThrust) @@ ("max_rcs_yaw_deg_s" :> DefaultMaxYawRate)

DefaultAutopilot == [enabled |-> FALSE, mode |-> "manual", params |-> EmptyDict]

\* float(physics_cfg.get("max_rcs_yaw_deg_s", 10.0))
MaxYawRate(ship) == Get(ship.physics, "max_rcs_yaw_deg_s", DefaultMaxYawRate)

\* the per-axis caps: pitch and roll default to the yaw cap
_physics_limits(ship) ==
    LET yaw == MaxYawRate(ship)
    IN [yaw |-> yaw,
        pitch |-> Get(ship.physics, "max_rcs_pitch_deg_s", yaw),
        roll |-> Get(ship.physics, "max_rcs_roll_deg_s", yaw)]

\* a lookup that falls back to the first ship when no id matches
FindShipOrFirst(S, ship_id) ==
    LET hits == {i \in 1..Len(S) : S[i].id = ship_id}
    IN IF hits = {} THEN 1 ELSE CHOOSE i \in hits : \A j \in hits : i <= j

\* next((s for s in self.ships if s["id"] == ship_id), None): the index of
\* the first ship with that id, 0 for None
FindShip(S, ship_id) ==
    LET hits == {i \in 1..Len(S) : S[i].id = ship_id}
    IN IF hits = {} THEN 0 ELSE CHOOSE i \in hits : \A j \in hits : i <= j

\* the ship dict _instantiate_ships builds from a ship config and its fleet
\* entry: controls normalised in shape (not clamped), physics and autopilot
\* defaulted only where the config has none
InstantiateShip(cfg) ==
    LET given == Get(cfg, "controls", [thrust_vector |-> OtherV, rotation_deg_s |-> Num(0)])
        thrust_vec == Pad3(ThrustList(given.thrust_vector))
        rot == RotationRates(given.rotation_deg_s)
    IN [id |-> cfg.id,
        team |-> cfg.team,
        position |-> cfg.position,
        velocity |-> cfg.velocity,
        orientation_deg |-> cfg.orientation_deg,
        mass_kg |-> cfg.mass_kg,
        signature |-> cfg.signature,
        passive |-> cfg.passive,
        active |-> cfg.active,
        ecm_strength |-> cfg.ecm_strength,
        eccm_strength |-> cfg.eccm_strength,
        controls |-> [thrust_vector |-> [j \in 1..3 |-> Float(thrust_vec[j])],
                      rotation_deg_s |-> [yaw |-> rot.yaw, pitch |-> rot.pitch, roll |-> rot.roll],
                      mode |-> NoMode],
        physics |-> Get(cfg, "physics", DefaultPhysics),
        autopilot |-> Get(cfg, "autopilot", DefaultAutopilot),
        current_target_id |-> NoTarget]

(***************************************************************************)
(* Fleets: the ship configs and fleet entries a mission can load.  Ranges  *)
(* are in metres, positions in millimetres.                                *)
(***************************************************************************)
AlphaCfg ==
    [id |-> "alpha", team |-> "blue",
     position |-> <<0, 0, 0>>, velocity |-> <<0, 0, 0>>, orientation_deg |-> 0,
     mass_kg |-> 1000000, signature |-> 1000,
     passive |-> ("range_km" :> 10000) @@ ("fov_deg" :> 180000) @@ ("sensitivity" :> 1000),
     active |-> ("range_km" :> 20000),
     ecm_strength |-> 0, eccm_strength |-> 0]

BravoCfg ==
    [id |-> "bravo", team |-> "red",
     position |-> <<5000000, 0, 0>>, velocity |-> <<0, 0, 0>>, orientation_deg |-> 180000,
     mass_kg |-> 500000, signature |-> 1000,
     passive |-> EmptyDict,
     active |-> EmptyDict,
     ecm_strength |-> 0, eccm_strength |-> 0,
     physics |-> ("max_main_thrust_newton" :> 1000000) @@ ("max_rcs_yaw_deg_s" :> 5000)
                 @@ ("max_rcs_pitch_deg_s" :> 3000) @@ ("max_rcs_roll_deg_s" :> 4000)]

\* ship configs that carry their own controls and autopilot blocks
AlphaPresetCfg ==
    [AlphaCfg EXCEPT !.velocity = <<0, -3000, 0>>] @@
    [controls |-> [thrust_vector |-> ListV(<<Num(0), Num(0), Num(2000)>>),
                   rotation_deg_s |-> Num(50000)],
     autopilot |-> [enabled |-> TRUE, mode |-> "manual", params |-> EmptyDict]]

BravoPresetCfg ==
    [BravoCfg EXCEPT !.velocity = <<0, 3000, 0>>] @@
    [autopilot |-> [enabled |-> TRUE, mode |-> "warp", params |-> EmptyDict]]

Fleets ==
    {<<InstantiateShip(AlphaCfg), InstantiateShip(BravoCfg)>>,
     <<InstantiateShip(AlphaPresetCfg), InstantiateShip(BravoPresetCfg)>>}

\* ids a request can name: the fleet's and one that matches no ship
ShipIds == {"alpha", "bravo", "ghost"}

(***************************************************************************)
(* SensorsManager.__init__                                                 *)
(***************************************************************************)
StaleAfter == 50
DropAfter == 100
MinDetectionStrength == 50

SensorsInit ==
    [contacts |-> <<>>, events |-> <<>>, next_event_id |-> 1, last_ping_time |-> EmptyDict]

(***************************************************************************)
(* DemoSimControllerV2.__init__                                            *)
(***************************************************************************)
DT == 1

\* socketserver.ThreadingTCPServer gives every connection a thread of its
\* own; two of them
Threads == {1, 2}

\* no request thread is inside a handler
NoRequests == [t \in Threads |-> [pc |-> "idle", returned |-> <<>>]]

InitWith(fleets) ==
    /\ sim_time = 0
    /\ ships \in fleets
    /\ projectiles = <<>>
    /\ next_projectile_id = 1
    /\ sensors = SensorsInit
    /\ running = TRUE
    /\ loop_alive = TRUE
    /\ last = [op |-> "init"]
    /\ calls = 0
    /\ requests = NoRequests

Init == InitWith(Fleets)

(***************************************************************************)
(* set_helm_input                                                          *)
(***************************************************************************)
\* if yaw_rate > max: yaw_rate = max; elif yaw_rate < -max: yaw_rate = -max
ClampRate(rate, cap) ==
    IF rate > cap THEN cap ELSE IF rate < -cap THEN -cap ELSE rate

Raised == [raised |-> "float"]

\* the ships after the call and what it returns
set_helm_input(S, ship_id, thrust_vector, rotation_input_deg_s, mode) ==
    LET i == FindShip(S, ship_id)
        raw == Pad3(ThrustList(thrust_vector))
        rot == RotationRates(rotation_input_deg_s)
    IN IF i = 0
       THEN [ships |-> S, reply |-> [error |-> "unknown_ship", ship_id |-> ship_id]]
       ELSE IF ~(\A j \in 1..3 : FloatOk(raw[j])) \/ ~rot.ok
       THEN [ships |-> S, reply |-> Raised]
       ELSE LET controls ==
                    [thrust_vector |-> [j \in 1..3 |-> Clamp(Float(raw[j]), -1000, 1000)],
                     rotation_deg_s |-> [yaw |-> ClampRate(rot.yaw, MaxYawRate(S[i])),
                                         pitch |-> rot.pitch,
                                         roll |-> rot.roll],
                     mode |-> IF mode = NoMode THEN S[i].controls.mode ELSE mode]
            IN [ships |-> [S EXCEPT ![i].controls = controls],
                reply |-> [ship_id |-> ship_id, controls |-> controls]]

(***************************************************************************)
(* Python dicts whose iteration order matters: sequences of [key, val] in  *)
(* insertion order.                                                        *)
(***************************************************************************)
DictKeys(d) == {d[i].key : i \in DOMAIN d}
DictHas(d, k) == k \in DictKeys(d)
DictIndex(d, k) == CHOOSE i \in DOMAIN d : d[i].key = k
DictGet(d, k) == d[DictIndex(d, k)].val
DictPut(d, k, v) ==
    IF DictHas(d, k) THEN [d EXCEPT ![DictIndex(d, k)].val = v]
    ELSE Append(d, [key |-> k, val |-> v])
DictDel(d, k) == SelectSeq(d, LAMBDA e : e.key # k)
DictValues(d) == [i \in DOMAIN d |-> d[i].val]

(***************************************************************************)
(* SensorsManager.  SM is the manager's state: contacts (sensor id ->      *)
(* contact id -> Contact), events, next_event_id, last_ping_time.          *)
(***************************************************************************)
NoneId == "<None>"
NoData == [x \in {} |-> 0]
NeverPinged == -1000000000

\* an emit that does not move the event id counter on
_emit_same_id(SM, time_s, type_, sensor_ship_id, target_entity_id, data) ==
    [SM EXCEPT
        !.events = Append(@, [id |-> SM.next_event_id,
                              time |-> time_s,
                              type |-> type_,
                              sensor_ship_id |-> sensor_ship_id,
                              target_entity_id |-> target_entity_id,
                              data |-> data])]

_emit(SM, time_s, type_, sensor_ship_id, target_entity_id, data) ==
    [SM EXCEPT
        !.events = Append(@, [id |-> SM.next_event_id,
                              time |-> time_s,
                              type |-> type_,
                              sensor_ship_id |-> sensor_ship_id,
                              target_entity_id |-> target_entity_id,
                              data |-> data]),
        !.next_event_id = @ + 1]

\* an accessor that returns the event with the id given as well
get_events_since_inclusive(SM, last_event_id) ==
    SelectSeq(SM.events, LAMBDA ev : ev.id >= last_event_id)

get_events_since(SM, last_event_id) ==
    SelectSeq(SM.events, LAMBDA ev : ev.id > last_event_id)

get_contacts_for_ship(SM, ship_id) ==
    IF DictHas(SM.contacts, ship_id) THEN DictValues(DictGet(SM.contacts, ship_id))
    ELSE <<>>

\* range in metres and bearing in [0, 360000) from position a to position b
_range_and_bearing(a, b) ==
    LET dx == b[1] - a[1]
        dy == b[2] - a[2]
        dz == b[3] - a[3]
        dist_m == Len3(<<dx, dy, dz>>) \div 1000
    IN [rng_km |-> dist_m, bearing |-> Atan2Mdeg(dy, dx) % 360000]

\* a field of view that admits its two edges
_within_fov_closed(orientation_deg, bearing_deg, fov_deg) ==
    IF fov_deg >= 360000 THEN TRUE
    ELSE LET diff == ((bearing_deg - orientation_deg + 540000) % 360000) - 180000
         IN -fov_deg <= 2 * diff /\ 2 * diff <= fov_deg

\* -half < diff < half with half = fov_deg / 2, compared doubled
_within_fov(orientation_deg, bearing_deg, fov_deg) ==
    IF fov_deg >= 360000 THEN TRUE
    ELSE LET diff == ((bearing_deg - orientation_deg + 540000) % 360000) - 180000
         IN -fov_deg < 2 * diff /\ 2 * diff < fov_deg

_detection_strength(base_sig, rng_km, sensor_range_km, ecm, eccm, sensitivity) ==
    LET eff == (base_sig * Max(100, Min(2000, 1000 - ecm + eccm))) \div 1000
        range_factor == Max(0, 1000 - (1000 * rng_km) \div Max(sensor_range_km, 1))
    IN (((sensitivity * eff) \div 1000) * range_factor) \div 1000

ContactId(sensor_ship_id, target_entity_id) ==
    sensor_ship_id \o "::" \o target_entity_id

_update_contact(SM, sim_time_, sensor_ship_id, target_entity_id, detection_type, rng_km, bearing_deg, strength) ==
    LET contacts_for_ship ==
            IF DictHas(SM.contacts, sensor_ship_id) THEN DictGet(SM.contacts, sensor_ship_id)
            ELSE <<>>
        cid == ContactId(sensor_ship_id, target_entity_id)
    IN IF DictHas(contacts_for_ship, cid)
       THEN LET c == [DictGet(contacts_for_ship, cid) EXCEPT
                         !.last_seen_time = sim_time_,
                         !.last_detection_type = detection_type,
                         !.range_km = rng_km,
                         !.bearing_deg = bearing_deg,
                         !.strength = strength,
                         !.stale = FALSE]
                SM1 == [SM EXCEPT !.contacts =
                           DictPut(@, sensor_ship_id, DictPut(contacts_for_ship, cid, c))]
            IN _emit(SM1, sim_time_, "contact_updated", sensor_ship_id, target_entity_id, NoData)
       ELSE LET c == [contact_id |-> cid,
                      sensor_ship_id |-> sensor_ship_id,
                      target_entity_id |-> target_entity_id,
                      first_seen_time |-> sim_time_,
                      last_seen_time |-> sim_time_,
                      last_detection_type |-> detection_type,
                      range_km |-> rng_km,
                      bearing_deg |-> bearing_deg,
                      strength |-> strength,
                      stale |-> FALSE]
                SM1 == [SM EXCEPT !.contacts =
                           DictPut(@, sensor_ship_id, DictPut(contacts_for_ship, cid, c))]
            IN _emit(SM1, sim_time_, "contact_acquired", sensor_ship_id, target_entity_id, NoData)

\* a detection loop that does not skip the sensing ship itself
DetectEntityOwnShip(SM, sim_time_, ship, ent, range_km, fov_deg, sensitivity, detection_type) ==
    LET rb == _range_and_bearing(ship.position, ent.position)
        strength == _detection_strength(ent.signature, rb.rng_km, range_km,
                                        Get(ent, "ecm_strength", 0), ship.eccm_strength,
                                        sensitivity)
    IN IF rb.rng_km > range_km THEN SM
       ELSE IF ~_within_fov(ship.orientation_deg, rb.bearing, fov_deg) THEN SM
       ELSE IF strength < MinDetectionStrength THEN SM
       ELSE _update_contact(SM, sim_time_, ship.id, ent.id, detection_type,
                            rb.rng_km, rb.bearing, strength)

\* one entity of the detection loop: skipped when it is the ship itself, out
\* of range, outside the field of view or too weak
DetectEntity(SM, sim_time_, ship, ent, range_km, fov_deg, sensitivity, detection_type) ==
    LET rb == _range_and_bearing(ship.position, ent.position)
        strength == _detection_strength(ent.signature, rb.rng_km, range_km,
                                        Get(ent, "ecm_strength", 0), ship.eccm_strength,
                                        sensitivity)
    IN IF ent.id = ship.id THEN SM
       ELSE IF rb.rng_km > range_km THEN SM
       ELSE IF ~_within_fov(ship.orientation_deg, rb.bearing, fov_deg) THEN SM
       ELSE IF strength < MinDetectionStrength THEN SM
       ELSE _update_contact(SM, sim_time_, ship.id, ent.id, detection_type,
                            rb.rng_km, rb.bearing, strength)

RECURSIVE DetectFrom(_, _, _, _, _, _, _, _, _)
\* for ent in entities, from the k-th on
DetectFrom(SM, sim_time_, ship, entities, k, range_km, fov_deg, sensitivity, detection_type) ==
    IF k > Len(entities) THEN SM
    ELSE DetectFrom(DetectEntity(SM, sim_time_, ship, entities[k], range_km, fov_deg,
                                 sensitivity, detection_type),
                    sim_time_, ship, entities, k + 1, range_km, fov_deg, sensitivity,
                    detection_type)

update_passive_for_ship(SM, sim_time_, ship, entities) ==
    LET range_km == Get(ship.passive, "range_km", 0)
        fov_deg == Get(ship.passive, "fov_deg", 360000)
        sensitivity == Get(ship.passive, "sensitivity", 1000)
    IN IF range_km <= 0 THEN SM
       ELSE DetectFrom(SM, sim_time_, ship, entities, 1, range_km, fov_deg, sensitivity,
                       "passive")

ActiveSensitivity == 1500
DefaultActiveFov == 60000
DefaultPingCooldown == 50

\* a cooldown counted from the latest ping of any ship
PingCoolingDownShared(SM, sim_time_, ship) ==
    \E id \in DOMAIN SM.last_ping_time :
        sim_time_ - SM.last_ping_time[id]
            < Get(ship.active, "ping_cooldown_s", DefaultPingCooldown)

\* whether the ping is refused for cooldown
PingCoolingDown(SM, sim_time_, ship) ==
    sim_time_ - Get(SM.last_ping_time, ship.id, NeverPinged)
        < Get(ship.active, "ping_cooldown_s", DefaultPingCooldown)

\* a ping whose refusal for cooldown restarts the cooldown
execute_active_ping_restarting(SM, sim_time_, ship, entities, mode) ==
    LET range_km == Get(ship.active, "range_km", 0)
        fov_deg == Get(ship.active, "fov_deg", DefaultActiveFov)
    IN IF range_km <= 0
       THEN _emit(SM, sim_time_, "sensor_ping", ship.id, NoneId,
                  [performed |-> FALSE, reason |-> "no_active"])
       ELSE IF PingCoolingDown(SM, sim_time_, ship)
       THEN _emit([SM EXCEPT !.last_ping_time = (ship.id :> sim_time_) @@ @],
                  sim_time_, "sensor_ping", ship.id, NoneId,
                  [performed |-> FALSE, reason |-> "cooldown"])
       ELSE LET SM1 == [SM EXCEPT !.last_ping_time = (ship.id :> sim_time_) @@ @]
                SM2 == _emit(SM1, sim_time_, "sensor_ping", ship.id, NoneId,
                             [performed |-> TRUE, mode |-> mode])
            IN DetectFrom(SM2, sim_time_, ship, entities, 1, range_km, fov_deg,
                          ActiveSensitivity, "active")

\* the manager after the ping; the call returns get_contacts_for_ship of it
execute_active_ping(SM, sim_time_, ship, entities, mode) ==
    LET range_km == Get(ship.active, "range_km", 0)
        fov_deg == Get(ship.active, "fov_deg", DefaultActiveFov)
    IN IF range_km <= 0
       THEN _emit(SM, sim_time_, "sensor_ping", ship.id, NoneId,
                  [performed |-> FALSE, reason |-> "no_active"])
       ELSE IF PingCoolingDown(SM, sim_time_, ship)
       THEN _emit(SM, sim_time_, "sensor_ping", ship.id, NoneId,
                  [performed |-> FALSE, reason |-> "cooldown"])
       ELSE LET SM1 == [SM EXCEPT !.last_ping_time = (ship.id :> sim_time_) @@ @]
                SM2 == _emit(SM1, sim_time_, "sensor_ping", ship.id, NoneId,
                             [performed |-> TRUE, mode |-> mode])
            IN DetectFrom(SM2, sim_time_, ship, entities, 1, range_km, fov_deg,
                          ActiveSensitivity, "active")

\* a fate that drops a contact only once it is older than the drop age
ContactFateLate(c, sim_time_) ==
    LET age == sim_time_ - c.last_seen_time
    IN IF age > DropAfter THEN "drop"
       ELSE IF age >= StaleAfter /\ ~c.stale THEN "stale"
       ELSE "keep"

\* what advance_time does with one contact
ContactFate(c, sim_time_) ==
    LET age == sim_time_ - c.last_seen_time
    IN IF age >= DropAfter THEN "drop"
       ELSE IF age >= StaleAfter /\ ~c.stale THEN "stale"
       ELSE "keep"

RECURSIVE AdvanceContacts(_, _, _, _, _)
\* for target_id, c in list(contacts.items()), from the k-th on
AdvanceContacts(SM, sim_time_, sensor_id, items, k) ==
    IF k > Len(items) THEN SM
    ELSE LET target_id == items[k].key
             fate == ContactFate(items[k].val, sim_time_)
             mine == DictGet(SM.contacts, sensor_id)
             SM1 == IF fate = "drop"
                    THEN [_emit(SM, sim_time_, "contact_lost", sensor_id, target_id, NoData)
                             EXCEPT !.contacts = DictPut(@, sensor_id, DictDel(mine, target_id))]
                    ELSE IF fate = "stale"
                    THEN [SM EXCEPT !.contacts =
                             DictPut(@, sensor_id,
                                     DictPut(mine, target_id, [items[k].val EXCEPT !.stale = TRUE]))]
                    ELSE SM
         IN AdvanceContacts(SM1, sim_time_, sensor_id, items, k + 1)

RECURSIVE AdvanceSensorsUnpruned(_, _, _, _)
\* the outer loop without the pruning of empty maps
AdvanceSensorsUnpruned(SM, sim_time_, snapshot, k) ==
    IF k > Len(snapshot) THEN SM
    ELSE AdvanceSensorsUnpruned(
             AdvanceContacts(SM, sim_time_, snapshot[k].key, snapshot[k].val, 1),
             sim_time_, snapshot, k + 1)

RECURSIVE AdvanceSensors(_, _, _, _)
\* for sensor_id, contacts in list(self.contacts.items()), from the k-th on
AdvanceSensors(SM, sim_time_, snapshot, k) ==
    IF k > Len(snapshot) THEN SM
    ELSE LET sensor_id == snapshot[k].key
             SM1 == AdvanceContacts(SM, sim_time_, sensor_id, snapshot[k].val, 1)
             SM2 == IF DictGet(SM1.contacts, sensor_id) = <<>>
                    THEN [SM1 EXCEPT !.contacts = DictDel(@, sensor_id)]
                    ELSE SM1
         IN AdvanceSensors(SM2, sim_time_, snapshot, k + 1)

advance_time(SM, sim_time_) == AdvanceSensors(SM, sim_time_, SM.contacts, 1)

(***************************************************************************)
(* sim/physics.py: the integrator the tick driver runs.                    *)
(***************************************************************************)
\* x * dt, dt = 0.1 s
TimesDt(x) == (x * DT) \div 10

\* gravity_accel_at_point over self.gravity_bodies, which the controller
\* leaves empty
GravAccel == <<0, 0, 0>>

yaw_deg_to_forward_vector(yaw_deg) == <<CosMilli(yaw_deg), SinMilli(yaw_deg), 0>>

\* an integrator that applies the vertical component of the thrust vector
\* along world +Z
update_ship_kinematics_lateral(ship) ==
    LET vel == ship.velocity
        pos == ship.position
        yaw == ship.orientation_deg
        thrust_vec == [j \in 1..3 |-> Clamp(ship.controls.thrust_vector[j], -1000, 1000)]
        rot == ship.controls.rotation_deg_s
        max_thrust_newton == Get(ship.physics, "max_main_thrust_newton", DefaultMaxThrust)
        yaw_rate == ClampRate(rot.yaw, MaxYawRate(ship))
        forward_throttle == Clamp(thrust_vec[3], -1000, 1000)
        forward_world == yaw_deg_to_forward_vector(yaw)
        accel_mag == (max_thrust_newton * forward_throttle) \div ship.mass_kg
        thrust_accel ==
            IF Abs(forward_throttle) > 1 /\ ship.mass_kg > 1
            THEN [j \in 1..3 |-> (forward_world[j] * accel_mag) \div 1000
                                  + (IF j = 3 THEN (max_thrust_newton * thrust_vec[2]) \div ship.mass_kg
                                     ELSE 0)]
            ELSE <<0, 0, (max_thrust_newton * thrust_vec[2]) \div ship.mass_kg>>
        vel1 == [j \in 1..3 |-> vel[j] + TimesDt(thrust_accel[j] + GravAccel[j])]
        pos1 == [j \in 1..3 |-> pos[j] + TimesDt(vel1[j])]
    IN [ship EXCEPT
           !.position = pos1,
           !.velocity = vel1,
           !.orientation_deg = (yaw + TimesDt(yaw_rate)) % 360000,
           !.controls = [thrust_vector |-> thrust_vec,
                         rotation_deg_s |-> [yaw |-> yaw_rate, pitch |-> rot.pitch,
                                             roll |-> rot.roll],
                         mode |-> NoMode]]

\* an integrator that spends the thrust command: the controls it writes back
\* carry no thrust
update_ship_kinematics_one_shot(ship) ==
    LET vel == ship.velocity
        pos == ship.position
        yaw == ship.orientation_deg
        thrust_vec == [j \in 1..3 |-> Clamp(ship.controls.thrust_vector[j], -1000, 1000)]
        rot == ship.controls.rotation_deg_s
        max_thrust_newton == Get(ship.physics, "max_main_thrust_newton", DefaultMaxThrust)
        yaw_rate == ClampRate(rot.yaw, MaxYawRate(ship))
        forward_throttle == Clamp(thrust_vec[3], -1000, 1000)
        forward_world == yaw_deg_to_forward_vector(yaw)
        accel_mag == (max_thrust_newton * forward_throttle) \div ship.mass_kg
        thrust_accel ==
            IF Abs(forward_throttle) > 1 /\ ship.mass_kg > 1
            THEN [j \in 1..3 |-> (forward_world[j] * accel_mag) \div 1000]
            ELSE <<0, 0, 0>>
        vel1 == [j \in 1..3 |-> vel[j] + TimesDt(thrust_accel[j] + GravAccel[j])]
        pos1 == [j \in 1..3 |-> pos[j] + TimesDt(vel1[j])]
    IN [ship EXCEPT
           !.position = pos1,
           !.velocity = vel1,
           !.orientation_deg = (yaw + TimesDt(yaw_rate)) % 360000,
           !.controls = [thrust_vector |-> <<0, 0, 0>>,
                         rotation_deg_s |-> [yaw |-> yaw_rate, pitch |-> rot.pitch,
                                             roll |-> rot.roll],
                         mode |-> NoMode]]

\* an integrator that applies the stored throttle and yaw rate as they are
update_ship_kinematics_unclamped(ship) ==
    LET vel == ship.velocity
        pos == ship.position
        yaw == ship.orientation_deg
        thrust_vec == ship.controls.thrust_vector
        rot == ship.controls.rotation_deg_s
        max_thrust_newton == Get(ship.physics, "max_main_thrust_newton", DefaultMaxThrust)
        yaw_rate == rot.yaw
        forward_throttle == thrust_vec[3]
        forward_world == yaw_deg_to_forward_vector(yaw)
        accel_mag == (max_thrust_newton * forward_throttle) \div ship.mass_kg
        thrust_accel ==
            IF Abs(forward_throttle) > 1 /\ ship.mass_kg > 1
            THEN [j \in 1..3 |-> (forward_world[j] * accel_mag) \div 1000]
            ELSE <<0, 0, 0>>
        vel1 == [j \in 1..3 |-> vel[j] + TimesDt(thrust_accel[j] + GravAccel[j])]
        pos1 == [j \in 1..3 |-> pos[j] + TimesDt(vel1[j])]
    IN [ship EXCEPT
           !.position = pos1,
           !.velocity = vel1,
           !.orientation_deg = (yaw + TimesDt(yaw_rate)) % 360000,
           !.controls = [thrust_vector |-> thrust_vec,
                         rotation_deg_s |-> [yaw |-> yaw_rate, pitch |-> rot.pitch,
                                             roll |-> rot.roll],
                         mode |-> NoMode]]

update_ship_kinematics(ship) ==
    LET vel == ship.velocity
        pos == ship.position
        yaw == ship.orientation_deg
        thrust_vec == [j \in 1..3 |-> Clamp(ship.controls.thrust_vector[j], -1000, 1000)]
        rot == ship.controls.rotation_deg_s
        max_thrust_newton == Get(ship.physics, "max_main_thrust_newton", DefaultMaxThrust)
        yaw_rate == ClampRate(rot.yaw, MaxYawRate(ship))
        forward_throttle == Clamp(thrust_vec[3], -1000, 1000)
        forward_world == yaw_deg_to_forward_vector(yaw)
        accel_mag == (max_thrust_newton * forward_throttle) \div ship.mass_kg
        thrust_accel ==
            IF Abs(forward_throttle) > 1 /\ ship.mass_kg > 1
            THEN [j \in 1..3 |-> (forward_world[j] * accel_mag) \div 1000]
            ELSE <<0, 0, 0>>
        vel1 == [j \in 1..3 |-> vel[j] + TimesDt(thrust_accel[j] + GravAccel[j])]
        pos1 == [j \in 1..3 |-> pos[j] + TimesDt(vel1[j])]
    IN [ship EXCEPT
           !.position = pos1,
           !.velocity = vel1,
           !.orientation_deg = (yaw + TimesDt(yaw_rate)) % 360000,
           !.controls = [thrust_vector |-> thrust_vec,
                         rotation_deg_s |-> [yaw |-> yaw_rate, pitch |-> rot.pitch,
                                             roll |-> rot.roll],
                         mode |-> NoMode]]

ProjectileTtl == 3000
SafetyCapM == 1000000000

\* a step that moves the projectile and leaves its ttl as it was
StepProjectileKeepsTtl(p) ==
    LET vel1 == [j \in 1..3 |-> p.velocity[j] + TimesDt(GravAccel[j])]
        pos1 == [j \in 1..3 |-> p.position[j] + TimesDt(vel1[j])]
    IN [p EXCEPT !.position = pos1, !.velocity = vel1]

\* one projectile after a tick; ttl <= 0 or a position beyond the cap drops it
StepProjectile(p) ==
    LET vel1 == [j \in 1..3 |-> p.velocity[j] + TimesDt(GravAccel[j])]
        pos1 == [j \in 1..3 |-> p.position[j] + TimesDt(vel1[j])]
    IN [p EXCEPT !.position = pos1, !.velocity = vel1, !.ttl = p.ttl - DT]

ProjectileSurvives(p1) == ~(p1.ttl <= 0) /\ ~(Len3(p1.position) \div 1000 > SafetyCapM)

update_projectiles(P) ==
    SelectSeq([k \in DOMAIN P |-> StepProjectile(P[k])], ProjectileSurvives)

\* the ships and projectiles after update_world
update_world(S, P) ==
    [ships |-> [k \in DOMAIN S |-> update_ship_kinematics(S[k])],
     projectiles |-> update_projectiles(P)]

(***************************************************************************)
(* The autopilot pass.                                                     *)
(***************************************************************************)
ZeroThrust == ListV(<<Num(0), Num(0), Num(0)>>)
ZeroRotation == DictV([a \in {"yaw", "pitch", "roll"} |-> Num(0)])

StopThreshold == 500
DefaultDesiredRange == 5000000
DefaultMinRange == 1000000

\* (target - current + 540) % 360 - 180
YawError(yaw_target, yaw_current) ==
    ((yaw_target - yaw_current + 540000) % 360000) - 180000

DisableAutopilot(S, k) ==
    [S EXCEPT ![k].autopilot.enabled = FALSE, ![k].autopilot.mode = "manual"]

\* a coast that zeroes the thrust and leaves the stored rotation rates
_ap_mode_coast_thrust_only(S, k) ==
    set_helm_input(S, S[k].id, ZeroThrust,
                   DictV([a \in {"yaw", "pitch", "roll"} |-> Num(S[k].controls.rotation_deg_s[a])]),
                   "autopilot_coast").ships

_ap_mode_coast(S, k) ==
    set_helm_input(S, S[k].id, ZeroThrust, ZeroRotation, "autopilot_coast").ships

\* math.degrees(math.atan2(-vy, -vx)) for floats vy, vx that are no negative
\* zeros: -vy is the float -0.0 where vy is 0.0, and atan2(-0.0, x) is -180
\* degrees for every x < 0 and for x = -0.0
Atan2Negated(vy, vx) ==
    IF vy = 0 /\ vx >= 0 THEN -180000 ELSE Atan2Mdeg(-vy, -vx)

\* a kill_vel that steers along the velocity instead of against it
_ap_mode_kill_vel_prograde(S, k) ==
    LET ship == S[k]
        speed == Len3(ship.velocity)
        yaw_target == Atan2Mdeg(ship.velocity[2], ship.velocity[1])
        yaw_cmd == ClampRate(YawError(yaw_target, ship.orientation_deg), MaxYawRate(ship))
        throttle == Max(100, Min(1000, speed \div 20))
    IN IF speed < StopThreshold
       THEN DisableAutopilot(
                set_helm_input(S, ship.id, ZeroThrust, ZeroRotation,
                               "autopilot_kill_vel_complete").ships, k)
       ELSE set_helm_input(S, ship.id,
                           ListV(<<Num(0), Num(0), Num(throttle)>>),
                           DictV(("yaw" :> Num(yaw_cmd)) @@ ("pitch" :> Num(0)) @@ ("roll" :> Num(0))),
                           "autopilot_kill_vel").ships

\* a kill_vel that zeroes the helm below the threshold but stays engaged
_ap_mode_kill_vel_engaged(S, k) ==
    LET ship == S[k]
        speed == Len3(ship.velocity)
        yaw_target == Atan2Negated(ship.velocity[2], ship.velocity[1])
        yaw_cmd == ClampRate(YawError(yaw_target, ship.orientation_deg), MaxYawRate(ship))
        throttle == Max(100, Min(1000, speed \div 20))
    IN IF speed < StopThreshold
       THEN set_helm_input(S, ship.id, ZeroThrust, ZeroRotation,
                           "autopilot_kill_vel_complete").ships
       ELSE set_helm_input(S, ship.id,
                           ListV(<<Num(0), Num(0), Num(throttle)>>),
                           DictV(("yaw" :> Num(yaw_cmd)) @@ ("pitch" :> Num(0)) @@ ("roll" :> Num(0))),
                           "autopilot_kill_vel").ships

_ap_mode_kill_vel(S, k) ==
    LET ship == S[k]
        speed == Len3(ship.velocity)
        yaw_target == Atan2Negated(ship.velocity[2], ship.velocity[1])
        yaw_cmd == ClampRate(YawError(yaw_target, ship.orientation_deg), MaxYawRate(ship))
        throttle == Max(100, Min(1000, speed \div 20))
    IN IF speed < StopThreshold
       THEN DisableAutopilot(
                set_helm_input(S, ship.id, ZeroThrust, ZeroRotation,
                               "autopilot_kill_vel_complete").ships, k)
       ELSE set_helm_input(S, ship.id,
                           ListV(<<Num(0), Num(0), Num(throttle)>>),
                           DictV(("yaw" :> Num(yaw_cmd)) @@ ("pitch" :> Num(0)) @@ ("roll" :> Num(0))),
                           "autopilot_kill_vel").ships

\* the first of self.ships + self.projectiles with that id: its position, or
\* found = FALSE
FindEntity(S, P, target_id) ==
    LET ents == [j \in DOMAIN S |-> [id |-> S[j].id, position |-> S[j].position]]
                \o [j \in DOMAIN P |-> [id |-> P[j].id, position |-> P[j].position]]
        hits == {j \in DOMAIN ents : ents[j].id = target_id}
    IN IF hits = {} THEN [found |-> FALSE, position |-> <<0, 0, 0>>]
       ELSE [found |-> TRUE,
             position |-> ents[CHOOSE j \in hits : \A h \in hits : j <= h].position]

\* a chase that never idles inside min_range_m
_ap_mode_chase_target_no_min(S, P, k) ==
    LET ship == S[k]
        target == FindEntity(S, P, ship.current_target_id)
        d == [j \in 1..3 |-> target.position[j] - ship.position[j]]
        dist == Len3(d)
        desired_range == Get(ship.autopilot.params, "desired_range_m", Num(DefaultDesiredRange))
        min_range == Get(ship.autopilot.params, "min_range_m", Num(DefaultMinRange))
        yaw_cmd == ClampRate(YawError(Atan2Mdeg(d[2], d[1]), ship.orientation_deg),
                             MaxYawRate(ship))
        throttle == IF dist < Float(desired_range) THEN 300 ELSE 800
    IN IF ship.current_target_id = NoTarget
       THEN [ok |-> TRUE, ships |-> _ap_mode_coast(S, k)]
       ELSE IF ~target.found
       THEN [ok |-> TRUE, ships |-> DisableAutopilot(S, k)]
       ELSE IF ~FloatOk(desired_range) \/ ~FloatOk(min_range)
       THEN [ok |-> FALSE, ships |-> S]
       ELSE [ok |-> TRUE,
             ships |-> set_helm_input(S, ship.id,
                           ListV(<<Num(0), Num(0), Num(throttle)>>),
                           DictV(("yaw" :> Num(yaw_cmd)) @@ ("pitch" :> Num(0)) @@ ("roll" :> Num(0))),
                           "autopilot_chase_target").ships]

\* a chase that coasts where its target does not resolve
_ap_mode_chase_target_coasting(S, P, k) ==
    LET ship == S[k]
        target == FindEntity(S, P, ship.current_target_id)
        d == [j \in 1..3 |-> target.position[j] - ship.position[j]]
        dist == Len3(d)
        desired_range == Get(ship.autopilot.params, "desired_range_m", Num(DefaultDesiredRange))
        min_range == Get(ship.autopilot.params, "min_range_m", Num(DefaultMinRange))
        yaw_cmd == ClampRate(YawError(Atan2Mdeg(d[2], d[1]), ship.orientation_deg),
                             MaxYawRate(ship))
        throttle == IF dist < Float(min_range) THEN 0
                    ELSE IF dist < Float(desired_range) THEN 300
                    ELSE 800
    IN IF ship.current_target_id = NoTarget \/ ~target.found
       THEN [ok |-> TRUE, ships |-> _ap_mode_coast(S, k)]
       ELSE IF ~FloatOk(desired_range) \/ ~FloatOk(min_range)
       THEN [ok |-> FALSE, ships |-> S]
       ELSE [ok |-> TRUE,
             ships |-> set_helm_input(S, ship.id,
                           ListV(<<Num(0), Num(0), Num(throttle)>>),
                           DictV(("yaw" :> Num(yaw_cmd)) @@ ("pitch" :> Num(0)) @@ ("roll" :> Num(0))),
                           "autopilot_chase_target").ships]

\* ok is FALSE where float() raises on a range parameter
_ap_mode_chase_target(S, P, k) ==
    LET ship == S[k]
        target == FindEntity(S, P, ship.current_target_id)
        d == [j \in 1..3 |-> target.position[j] - ship.position[j]]
        dist == Len3(d)
        desired_range == Get(ship.autopilot.params, "desired_range_m", Num(DefaultDesiredRange))
        min_range == Get(ship.autopilot.params, "min_range_m", Num(DefaultMinRange))
        yaw_cmd == ClampRate(YawError(Atan2Mdeg(d[2], d[1]), ship.orientation_deg),
                             MaxYawRate(ship))
        throttle == IF dist < Float(min_range) THEN 0
                    ELSE IF dist < Float(desired_range) THEN 300
                    ELSE 800
    IN IF ship.current_target_id = NoTarget
       THEN [ok |-> TRUE, ships |-> _ap_mode_coast(S, k)]
       ELSE IF ~target.found
       THEN [ok |-> TRUE, ships |-> DisableAutopilot(S, k)]
       ELSE IF ~FloatOk(desired_range) \/ ~FloatOk(min_range)
       THEN [ok |-> FALSE, ships |-> S]
       ELSE [ok |-> TRUE,
             ships |-> set_helm_input(S, ship.id,
                           ListV(<<Num(0), Num(0), Num(throttle)>>),
                           DictV(("yaw" :> Num(yaw_cmd)) @@ ("pitch" :> Num(0)) @@ ("roll" :> Num(0))),
                           "autopilot_chase_target").ships]

\* the body of the loop of _apply_autopilot for the k-th ship
AutopilotShip(S, P, k) ==
    LET ap == S[k].autopilot
    IN IF ~ap.enabled THEN [ok |-> TRUE, ships |-> S]
       ELSE IF ap.mode = "manual" THEN [ok |-> TRUE, ships |-> S]
       ELSE IF ap.mode = "coast" THEN [ok |-> TRUE, ships |-> _ap_mode_coast(S, k)]
       ELSE IF ap.mode = "kill_vel" THEN [ok |-> TRUE, ships |-> _ap_mode_kill_vel(S, k)]
       ELSE IF ap.mode = "chase_target" THEN _ap_mode_chase_target(S, P, k)
       ELSE [ok |-> TRUE, ships |-> DisableAutopilot(S, k)]

RECURSIVE AutopilotFrom(_, _, _)
\* for ship in self.ships, from the k-th on; an exception ends the pass
AutopilotFrom(S, P, k) ==
    IF k > Len(S) THEN [ok |-> TRUE, ships |-> S]
    ELSE LET r == AutopilotShip(S, P, k)
         IN IF r.ok THEN AutopilotFrom(r.ships, P, k + 1) ELSE r

_apply_autopilot(S, P) == AutopilotFrom(S, P, 1)

(***************************************************************************)
(* The tick driver.                                                        *)
(***************************************************************************)
RECURSIVE PassiveFrom(_, _, _, _, _)
\* for ship in self.ships: update_passive_for_ship, from the k-th on
PassiveFrom(SM, sim_time_, S, entities, k) ==
    IF k > Len(S) THEN SM
    ELSE PassiveFrom(update_passive_for_ship(SM, sim_time_, S[k], entities),
                     sim_time_, S, entities, k + 1)

_update_sensors(SM, sim_time_, S, P) ==
    advance_time(PassiveFrom(SM, sim_time_, S, S \o P, 1), sim_time_)

(***************************************************************************)
(* API v1.0 handlers.                                                      *)
(***************************************************************************)
set_target(S, ship_id, target_entity_id) ==
    LET i == FindShip(S, ship_id)
    IN IF i = 0
       THEN [ships |-> S, reply |-> [error |-> "unknown_ship", ship_id |-> ship_id]]
       ELSE [ships |-> [S EXCEPT ![i].current_target_id = target_entity_id],
             reply |-> [ship_id |-> ship_id, current_target_id |-> target_entity_id]]

MuzzleVelocity == 2000

ProjectileId(ship_id, n) == ship_id \o "_proj_" \o ToString(n)

fire_weapon(S, P, next_id, ship_id, weapon_mount_id) ==
    LET i == FindShip(S, ship_id)
        forward == yaw_deg_to_forward_vector(S[i].orientation_deg)
        proj_id == ProjectileId(ship_id, next_id)
        projectile == [id |-> proj_id,
                       type |-> "torpedo",
                       team |-> S[i].team,
                       position |-> S[i].position,
                       velocity |-> [j \in 1..3 |-> S[i].velocity[j] + forward[j] * MuzzleVelocity],
                       mass_kg |-> 100,
                       ttl |-> ProjectileTtl,
                       signature |-> 300]
    IN IF i = 0
       THEN [projectiles |-> P, next_id |-> next_id,
             reply |-> [error |-> "unknown_ship", ship_id |-> ship_id]]
       ELSE [projectiles |-> Append(P, projectile), next_id |-> next_id + 1,
             reply |-> [projectile_id |-> proj_id]]

ping_sensors(SM, sim_time_, S, P, ship_id, mode) ==
    LET i == FindShip(S, ship_id)
        SM1 == execute_active_ping(SM, sim_time_, S[i], S \o P, mode)
    IN IF i = 0
       THEN [sensors |-> SM,
             reply |-> [error |-> "unknown_ship", ship_id |-> ship_id, mode |-> mode]]
       ELSE [sensors |-> SM1,
             reply |-> [ship_id |-> ship_id, mode |-> mode,
                        contacts |-> get_contacts_for_ship(SM1, ship_id)]]

\* a mode argument: a string, None, or a list (unhashable)
StrV(str) == [k |-> "str", s |-> str]

\* bool(v) of a mode argument
Truthy(v) ==
    IF v.k = "str" THEN v.s # ""
    ELSE IF v.k = "list" THEN v.items # <<>>
    ELSE FALSE

AllowedModes == {"manual", "coast", "kill_vel", "chase_target"}

\* mode or "manual"
ChosenMode(mode) == IF Truthy(mode) THEN mode ELSE StrV("manual")

\* a handler that flips the stored enabled flag instead of setting it
set_autopilot_mode_toggling(S, ship_id, enabled, mode, params) ==
    LET i == FindShip(S, ship_id)
        chosen_mode == ChosenMode(mode)
    IN IF i = 0 \/ chosen_mode.k # "str" \/ chosen_mode.s \notin AllowedModes
       THEN [ships |-> S, reply |-> [error |-> "rejected"]]
       ELSE LET ap == [enabled |-> ~S[i].autopilot.enabled /\ chosen_mode.s # "manual",
                       mode |-> chosen_mode.s,
                       params |-> params]
            IN [ships |-> [S EXCEPT ![i].autopilot = ap],
                reply |-> [ship_id |-> ship_id, autopilot |-> ap]]

set_autopilot_mode(S, ship_id, enabled, mode, params) ==
    LET i == FindShip(S, ship_id)
        chosen_mode == ChosenMode(mode)
    IN IF i = 0
       THEN [ships |-> S,
             reply |-> [error |-> "unknown_ship", ship_id |-> ship_id,
                        enabled |-> enabled, mode |-> mode]]
       ELSE IF chosen_mode.k # "str"
       THEN [ships |-> S, reply |-> [raised |-> "TypeError"]]
       ELSE IF chosen_mode.s \notin AllowedModes
       THEN [ships |-> S,
             reply |-> [error |-> "invalid_mode", ship_id |-> ship_id,
                        enabled |-> enabled, mode |-> chosen_mode.s,
                        allowed_modes |-> AllowedModes]]
       ELSE LET ap == [enabled |-> enabled /\ chosen_mode.s # "manual",
                       mode |-> chosen_mode.s,
                       params |-> params]
            IN [ships |-> [S EXCEPT ![i].autopilot = ap],
                reply |-> [ship_id |-> ship_id, autopilot |-> ap]]

(***************************************************************************)
(* Actions: one tick of _loop, stop(), and the handlers called by request  *)
(* threads.  A step is one whole call.                                     *)
(***************************************************************************)
\* a loop body whose sensor pass reads the ships and projectiles as they
\* were before the integration
LoopBodyStaleSensors ==
    /\ loop_alive
    /\ LET now == sim_time + DT
           ap == _apply_autopilot(ships, projectiles)
           w == update_world(ap.ships, projectiles)
       IN /\ sim_time' = now
          /\ IF ap.ok
             THEN /\ ships' = w.ships
                  /\ projectiles' = w.projectiles
                  /\ sensors' = _update_sensors(sensors, now, ap.ships, projectiles)
                  /\ loop_alive' = TRUE
             ELSE /\ ships' = ap.ships
                  /\ UNCHANGED <<projectiles, sensors>>
                  /\ loop_alive' = FALSE
    /\ last' = [op |-> "tick"]
    /\ UNCHANGED <<next_projectile_id, running>>

\* the body of the while loop of _loop, run by a live loop thread
LoopBody ==
    /\ loop_alive
    /\ \E now \in {sim_time + DT}, ap \in {_apply_autopilot(ships, projectiles)} :
          \E w \in {update_world(ap.ships, projectiles)} :
             /\ sim_time' = now
             /\ IF ap.ok
                THEN /\ ships' = w.ships
                     /\ projectiles' = w.projectiles
                     /\ sensors' = _update_sensors(sensors, now, w.ships, w.projectiles)
                     /\ loop_alive' = TRUE
                ELSE /\ ships' = ap.ships
                     /\ UNCHANGED <<projectiles, sensors>>
                     /\ loop_alive' = FALSE
    /\ last' = [op |-> "tick"]
    /\ UNCHANGED <<next_projectile_id, running>>

\* one pass of _loop: the test of _running and the body
LoopPass == running /\ LoopBody

Tick == sim_time < MaxTime /\ LoopPass

Stop ==
    /\ running
    /\ running' = FALSE
    /\ last' = [op |-> "stop"]
    /\ UNCHANGED <<sim_time, ships, projectiles, next_projectile_id, sensors, loop_alive>>

SetHelmInput(ship_id, thrust_vector, rotation_input_deg_s) ==
    /\ LET r == set_helm_input(ships, ship_id, thrust_vector, rotation_input_deg_s, NoMode)
       IN /\ ships' = r.ships
          /\ last' = [op |-> "set_helm_input", ship_id |-> ship_id,
                      reply |-> r.reply]
    /\ UNCHANGED <<sim_time, projectiles, next_projectile_id, sensors, running, loop_alive>>

SetAutopilotMode(ship_id, enabled, mode, params) ==
    /\ LET r == set_autopilot_mode(ships, ship_id, enabled, mode, params)
       IN /\ ships' = r.ships
          /\ last' = [op |-> "set_autopilot_mode", ship_id |-> ship_id,
                      enabled |-> enabled, mode |-> mode, params |-> params,
                      reply |-> r.reply,
                      repeats |-> /\ last.op = "set_autopilot_mode"
                                  /\ last.ship_id = ship_id
                                  /\ last.enabled = enabled
                                  /\ last.mode = mode
                                  /\ last.params = params]
    /\ UNCHANGED <<sim_time, projectiles, next_projectile_id, sensors, running, loop_alive>>

SetTarget(ship_id, target_entity_id) ==
    /\ LET r == set_target(ships, ship_id, target_entity_id)
       IN /\ ships' = r.ships
          /\ last' = [op |-> "set_target", ship_id |-> ship_id,
                      reply |-> r.reply]
    /\ UNCHANGED <<sim_time, projectiles, next_projectile_id, sensors, running, loop_alive>>

FireWeapon(ship_id, weapon_mount_id) ==
    /\ LET r == fire_weapon(ships, projectiles, next_projectile_id, ship_id, weapon_mount_id)
       IN /\ projectiles' = r.projectiles
          /\ next_projectile_id' = r.next_id
          /\ last' = [op |-> "fire_weapon", ship_id |-> ship_id,
                      reply |-> r.reply]
    /\ UNCHANGED <<sim_time, ships, sensors, running, loop_alive>>

PingSensors(ship_id, mode) ==
    /\ LET r == ping_sensors(sensors, sim_time, ships, projectiles, ship_id, mode)
       IN /\ sensors' = r.sensors
          /\ last' = [op |-> "ping_sensors", ship_id |-> ship_id,
                      reply |-> r.reply]
    /\ UNCHANGED <<sim_time, ships, projectiles, next_projectile_id, running, loop_alive>>

(***************************************************************************)
(* Request inputs.                                                         *)
(***************************************************************************)
\* thrust values: in range, needing the clamp, short, long, no list, a
\* numeric string, a string that is no number
ThrustInputs ==
    {ListV(<<Num(0), Num(0), Num(500)>>),
     ListV(<<Num(-3000), Num(200), Num(1500)>>),
     ListV(<<Num(700)>>),
     ListV(<<Num(100), Num(0), Num(-400), Num(900)>>),
     OtherV,
     ListV(<<Num(0), BadStr, NumStr(250)>>)}

\* rotation values: a scalar yaw rate within and beyond the caps, dicts with
\* pitch and roll, a value that is neither, a dict with a bad entry
RotationInputs ==
    {Num(3000),
     Num(-50000),
     DictV(("yaw" :> Num(20000)) @@ ("pitch" :> Num(50000)) @@ ("roll" :> Num(-50000))),
     DictV(("pitch" :> Num(2000)) @@ ("roll" :> NumStr(-1000))),
     OtherV,
     DictV(("yaw" :> BadStr))}

ModeInputs ==
    {StrV("manual"), StrV("coast"), StrV("kill_vel"), StrV("chase_target"),
     StrV("warp"), StrV(""), NoneV, ListV(<<StrV("coast")>>)}

ParamsInputs ==
    {EmptyDict, ("desired_range_m" :> Num(8000000)) @@ ("min_range_m" :> Num(6000000))}

TargetInputs == {"bravo", "nobody"}

(***************************************************************************)
(* Specifications.                                                         *)
(***************************************************************************)
\* a handler call counted against the budget of calls
Budgeted(A) == calls < MaxCalls /\ A /\ calls' = calls + 1 /\ UNCHANGED requests
\* a step that is not counted
Free(A) == A /\ UNCHANGED <<calls, requests>>

\* every handler, with a few inputs each
Next ==
    \/ Free(Tick)
    \/ Free(Stop)
    \/ \E id \in ShipIds :
          \/ Budgeted(SetHelmInput(id, ListV(<<Num(0), Num(0), Num(500)>>), Num(3000)))
          \/ Budgeted(SetAutopilotMode(id, TRUE, StrV("coast"), EmptyDict))
          \/ Budgeted(SetTarget(id, "bravo"))
          \/ Budgeted(FireWeapon(id, "tube_1"))
          \/ Budgeted(PingSensors(id, "active"))
    \/ \E tv \in ThrustInputs, rot \in RotationInputs : Budgeted(SetHelmInput("ghost", tv, rot))
    \/ \E en \in BOOLEAN, m \in ModeInputs, ps \in ParamsInputs :
          Budgeted(SetAutopilotMode("ghost", en, m, ps))
    \/ \E t \in TargetInputs : Budgeted(SetTarget("ghost", t))
    \/ \E m \in {"active", "passive"} : Budgeted(PingSensors("ghost", m))

Spec == Init /\ [][Next]_vars

\* helm input for one ship and for an unknown id, against the tick
NextHelm ==
    \/ Free(sim_time < MaxHelmTime /\ Tick)
    \/ \E id \in {"bravo", "ghost"}, tv \in ThrustInputs, rot \in RotationInputs :
          Free(SetHelmInput(id, tv, rot))

SpecHelm == Init /\ [][NextHelm]_vars

\* autopilot commands for one ship and for an unknown id, against the tick
NextAutopilot ==
    \/ Free(sim_time < MaxAutopilotTime /\ Tick)
    \/ \E id \in {"alpha", "ghost"}, en \in BOOLEAN, m \in ModeInputs, ps \in ParamsInputs :
          Free(SetAutopilotMode(id, en, m, ps))
    \/ \E id \in {"alpha", "ghost"}, t \in TargetInputs : Free(SetTarget(id, t))

SpecAutopilot == Init /\ [][NextAutopilot]_vars

(***************************************************************************)
(* The SensorsManager on its own: its methods called one at a time by a    *)
(* caller whose clock never runs backwards, over a fleet at rest.          *)
(***************************************************************************)
\* alpha senses passively and pings ahead with a cooldown of its own; bravo
\* pings all round with the default cooldown; charlie has no sensors
SensorAlphaCfg ==
    [AlphaCfg EXCEPT !.active = ("range_km" :> 20000) @@ ("ping_cooldown_s" :> 70)]

SensorBravoCfg ==
    [BravoCfg EXCEPT !.active = ("range_km" :> 20000) @@ ("fov_deg" :> 360000)]

CharlieCfg ==
    [id |-> "charlie", team |-> "red",
     position |-> <<0, -5000000, 0>>, velocity |-> <<0, 0, 0>>, orientation_deg |-> 90000,
     mass_kg |-> 200000, signature |-> 1000,
     passive |-> EmptyDict,
     active |-> EmptyDict,
     ecm_strength |-> 0, eccm_strength |-> 0]

SensorFleet ==
    <<InstantiateShip(SensorAlphaCfg), InstantiateShip(SensorBravoCfg), InstantiateShip(CharlieCfg)>>

InitSensors == InitWith({SensorFleet})

\* sim time passes between two calls, half the drop age at a time
ClockStep == DropAfter \div 2

Elapse ==
    /\ sim_time + ClockStep <= MaxElapses * ClockStep
    /\ sim_time' = sim_time + ClockStep
    /\ last' = [op |-> "elapse"]
    /\ UNCHANGED <<ships, projectiles, next_projectile_id, sensors, running, loop_alive>>

UpdatePassive(k) ==
    /\ LET SM1 == update_passive_for_ship(sensors, sim_time, ships[k], ships \o projectiles)
       IN /\ Len(SM1.events) <= MaxEvents
          /\ sensors' = SM1
    /\ last' = [op |-> "update_passive_for_ship", ship_id |-> ships[k].id]
    /\ UNCHANGED <<sim_time, ships, projectiles, next_projectile_id, running, loop_alive>>

ActivePing(k, mode) ==
    /\ LET SM1 == execute_active_ping(sensors, sim_time, ships[k], ships \o projectiles, mode)
       IN /\ Len(SM1.events) <= MaxEvents
          /\ sensors' = SM1
          /\ last' = [op |-> "execute_active_ping", ship_id |-> ships[k].id,
                      reply |-> get_contacts_for_ship(SM1, ships[k].id)]
    /\ UNCHANGED <<sim_time, ships, projectiles, next_projectile_id, running, loop_alive>>

AdvanceTime ==
    /\ LET SM1 == advance_time(sensors, sim_time)
       IN /\ Len(SM1.events) <= MaxEvents
          /\ sensors' = SM1
    /\ last' = [op |-> "advance_time"]
    /\ UNCHANGED <<sim_time, ships, projectiles, next_projectile_id, running, loop_alive>>

NextSensors ==
    \/ Free(Elapse)
    \/ \E k \in {1, 3} : Free(UpdatePassive(k))
    \/ \E k \in 1..3 : Free(ActivePing(k, "standard"))
    \/ Free(AdvanceTime)

SpecSensors == InitSensors /\ [][NextSensors]_vars

(***************************************************************************)
(* Command surface: helm input, unknown ships, autopilot mode.             *)
(***************************************************************************)
Commands == {"set_target", "fire_weapon", "ping_sensors", "set_autopilot_mode", "set_helm_input"}

\* the last call was a command of that name which returned a payload with
\* that key
Returned(op, key) == last.op = op /\ key \in DOMAIN last.reply

\* no ship of the fleet has that id
NoSuchShip(ship_id) == \A i \in DOMAIN ships : ships[i].id # ship_id

\* a rate within plus or minus a cap
WithinCap(rate, cap) == -cap <= rate /\ rate <= cap

\* C1: after a successful set_helm_input on an existing ship, the ship's
\* stored thrust_vector has exactly 3 components each in [-1,1], and its
\* stored yaw, pitch and roll rates each lie within plus or minus the ship's
\* cap for that axis.
C1_HelmStoredWithinCaps ==
    Returned("set_helm_input", "controls") =>
        LET ship == ships[FindShip(ships, last.ship_id)]
            c == ship.controls
            lim == _physics_limits(ship)
        IN /\ Len(c.thrust_vector) = 3
           /\ \A j \in 1..3 : WithinCap(c.thrust_vector[j], 1000)
           /\ WithinCap(c.rotation_deg_s.yaw, lim.yaw)
           /\ WithinCap(c.rotation_deg_s.pitch, lim.pitch)
           /\ WithinCap(c.rotation_deg_s.roll, lim.roll)

\* C2: every command called with a ship id that matches no ship returns an
\* unknown_ship error payload without raising, and leaves the whole world
\* unchanged: ships, projectiles, the projectile id counter, contacts, ping
\* timestamps and sensor events.
C2_UnknownShipLeavesWorld ==
    [][(last'.op \in Commands /\ NoSuchShip(last'.ship_id)) =>
          /\ "error" \in DOMAIN last'.reply
          /\ last'.reply.error = "unknown_ship"
          /\ last'.reply.ship_id = last'.ship_id
          /\ UNCHANGED <<sim_time, ships, projectiles, next_projectile_id, sensors,
                         running, loop_alive>>]_vars

\* an unknown id was refused after the world had moved on: a projectile is
\* in flight and the sensors have logged events
C2_Witness ==
    /\ last.op \in Commands
    /\ NoSuchShip(last.ship_id)
    /\ "error" \in DOMAIN last.reply
    /\ projectiles # <<>>
    /\ sim_time > 0

\* C3: set_autopilot_mode on an existing ship with a mode outside {manual,
\* coast, kill_vel, chase_target} fails with an invalid_mode error and leaves
\* the ship's stored autopilot state exactly as it was.  (A call that passes
\* no mode at all, None, is not counted as naming a mode.)
C3_InvalidModeRejected ==
    [][(/\ last'.op = "set_autopilot_mode"
        /\ ~NoSuchShip(last'.ship_id)
        /\ last'.mode # NoneV
        /\ last'.mode \notin {StrV(m) : m \in AllowedModes}) =>
          /\ "error" \in DOMAIN last'.reply
          /\ last'.reply.error = "invalid_mode"
          /\ ships' = ships]_vars

\* C4: after every set_autopilot_mode call and after every completed
\* autopilot pass of a tick, no ship has autopilot enabled together with mode
\* manual or with a mode outside {coast, kill_vel, chase_target}.
C4_EnabledImpliesActiveMode ==
    ((last.op = "tick" /\ loop_alive) \/ last.op = "set_autopilot_mode") =>
        \A i \in DOMAIN ships :
            ships[i].autopilot.enabled =>
                ships[i].autopilot.mode \in {"coast", "kill_vel", "chase_target"}

\* C5: set_autopilot_mode is idempotent: a call made directly after a call
\* with the same arguments leaves every ship's stored autopilot state as the
\* first call left it and returns the same reply.
C5_SetAutopilotModeIdempotent ==
    [][(last'.op = "set_autopilot_mode" /\ last'.repeats) =>
          /\ last'.reply = last.reply
          /\ \A i \in DOMAIN ships : ships'[i].autopilot = ships[i].autopilot]_vars

\* the second of two equal calls that enable a mode with parameters
C5_Witness ==
    /\ last.op = "set_autopilot_mode"
    /\ last.repeats
    /\ "autopilot" \in DOMAIN last.reply
    /\ last.reply.autopilot.enabled
    /\ last.reply.autopilot.params # EmptyDict

(***************************************************************************)
(* Sensors: contact lifecycle, event log, active ping cooldown.            *)
(***************************************************************************)
\* the tracked contacts, each as <<sensing ship, key in its contact map>>
ContactKeys(SM) ==
    UNION {{<<SM.contacts[i].key, SM.contacts[i].val[j].key>> : j \in DOMAIN SM.contacts[i].val}
           : i \in DOMAIN SM.contacts}

\* the contact tracked under such a key
ContactAt(SM, k) == DictGet(DictGet(SM.contacts, k[1]), k[2])

Age(c) == sim_time - c.last_seen_time

Returns(SM, sensor_id, c) ==
    \E j \in DOMAIN get_contacts_for_ship(SM, sensor_id) :
        get_contacts_for_ship(SM, sensor_id)[j] = c

\* the events a step appends
NewEvents == SubSeq(sensors'.events, Len(sensors.events) + 1, Len(sensors'.events))

\* the log keeps what it had
LogExtended ==
    /\ Len(sensors'.events) >= Len(sensors.events)
    /\ SubSeq(sensors'.events, 1, Len(sensors.events)) = sensors.events

\* C6: with sim time non-decreasing, after every advance_time(now) each
\* tracked contact has now - last_seen_time < drop_after_s and is stale
\* exactly when now - last_seen_time >= stale_after_s; a stale contact is
\* still returned by get_contacts_for_ship; marking a contact stale emits no
\* event.
C6_ContactAgesAfterAdvance ==
    /\ [](last.op = "advance_time" =>
            \A k \in ContactKeys(sensors) :
                LET c == ContactAt(sensors, k)
                IN /\ Age(c) < DropAfter
                   /\ c.stale <=> Age(c) >= StaleAfter
                   /\ Returns(sensors, k[1], c))
    /\ [][(last'.op = "advance_time" /\ ContactKeys(sensors') = ContactKeys(sensors)) =>
             sensors'.events = sensors.events]_vars

\* advance_time has left a stale contact, which is still returned
C6_Witness ==
    /\ last.op = "advance_time"
    /\ \E k \in ContactKeys(sensors) :
          /\ ContactAt(sensors, k).stale
          /\ Returns(sensors, k[1], ContactAt(sensors, k))

\* C7: an advance_time removes every contact of age >= drop_after_s from
\* get_contacts_for_ship and appends exactly one contact_lost event for each
\* such loss and no other event, so none for a contact lost earlier and none
\* for a contact still tracked; a sensing ship left without contacts has its
\* contact map pruned.
C7_OneContactLostPerDrop ==
    [][last'.op = "advance_time" =>
          LET dropped == {k \in ContactKeys(sensors) : Age(ContactAt(sensors, k)) >= DropAfter}
          IN /\ ContactKeys(sensors') = ContactKeys(sensors) \ dropped
             /\ LogExtended
             /\ Len(NewEvents) = Cardinality(dropped)
             /\ \A j \in DOMAIN NewEvents :
                   /\ NewEvents[j].type = "contact_lost"
                   /\ <<NewEvents[j].sensor_ship_id, NewEvents[j].target_entity_id>> \in dropped
             /\ \A k \in dropped :
                   /\ Cardinality({j \in DOMAIN NewEvents :
                          <<NewEvents[j].sensor_ship_id, NewEvents[j].target_entity_id>> = k}) = 1
                   /\ ~Returns(sensors', k[1], ContactAt(sensors, k))
             /\ \A i \in DOMAIN sensors'.contacts : sensors'.contacts[i].val # <<>>]_vars

\* advance_time dropped a contact with a single contact_lost event and
\* pruned its sensing ship's map, while another ship's contacts stay tracked
C7_Witness ==
    /\ last.op = "advance_time"
    /\ ContactKeys(sensors) # {}
    /\ \E j \in DOMAIN sensors.events :
          /\ sensors.events[j].type = "contact_lost"
          /\ sensors.events[j].time = sim_time
          /\ ~DictHas(sensors.contacts, sensors.events[j].sensor_ship_id)
          /\ \A l \in DOMAIN sensors.events :
                sensors.events[l].type = "contact_lost" => l = j

\* C8: over passive updates, active pings and advance_time calls made one at
\* a time, the event log only grows by appending, and the event ids in log
\* order are 1, 2, 3, ... with one counter for all ships.
C8_EventLogAppendOnly ==
    /\ [](\A j \in DOMAIN sensors.events : sensors.events[j].id = j)
    /\ [][LogExtended]_vars

\* the log holds events of two sensing ships and a contact_lost
C8_Witness ==
    /\ \E j \in DOMAIN sensors.events : sensors.events[j].type = "contact_lost"
    /\ \E i, j \in DOMAIN sensors.events :
          sensors.events[i].sensor_ship_id # sensors.events[j].sensor_ship_id
    /\ Len(sensors.events) >= 4

\* the places in the log of the pings a ship performed
PerformedPings(SM, ship_id) ==
    {j \in DOMAIN SM.events :
        /\ SM.events[j].type = "sensor_ping"
        /\ SM.events[j].sensor_ship_id = ship_id
        /\ SM.events[j].data.performed}

\* the places in the log of the pings a ship was refused
RefusedPings(SM, ship_id, reason) ==
    {j \in DOMAIN SM.events :
        /\ SM.events[j].type = "sensor_ping"
        /\ SM.events[j].sensor_ship_id = ship_id
        /\ ~SM.events[j].data.performed
        /\ SM.events[j].data.reason = reason}

Cooldown(ship) == Get(ship.active, "ping_cooldown_s", DefaultPingCooldown)

HasActive(ship) == Get(ship.active, "range_km", 0) > 0

\* the ship performed a ping less than its cooldown ago, by the log
InsideCooldown(ship) ==
    \E j \in PerformedPings(sensors, ship.id) :
        sim_time - sensors.events[j].time < Cooldown(ship)

LastPing(SM, ship_id) == Get(SM.last_ping_time, ship_id, NeverPinged)

\* C9: any two pings a ship performed are at least its cooldown apart; a ping
\* requested inside the cooldown is refused with reason cooldown, a refused
\* ping does not restart the cooldown, a performed ping sets the ship's
\* last-ping time to the current sim time, and a ship outside its own
\* cooldown is not held back by the pings of other ships.
C9_PingCooldownPerShip ==
    /\ [](\A i \in DOMAIN ships :
            \A a, b \in PerformedPings(sensors, ships[i].id) :
                a < b => sensors.events[b].time - sensors.events[a].time >= Cooldown(ships[i]))
    /\ [][last'.op = "execute_active_ping" =>
             LET ship == ships[FindShip(ships, last'.ship_id)]
                 ping == NewEvents[1]
             IN /\ ping.type = "sensor_ping"
                /\ (HasActive(ship) /\ InsideCooldown(ship)) =>
                      (~ping.data.performed /\ ping.data.reason = "cooldown")
                /\ (HasActive(ship) /\ ~InsideCooldown(ship)) =>
                      (ping.data.performed /\ LastPing(sensors', ship.id) = sim_time)
                /\ ~ping.data.performed => sensors'.last_ping_time = sensors.last_ping_time
                /\ \A i \in DOMAIN ships :
                      ships[i].id # ship.id =>
                          LastPing(sensors', ships[i].id) = LastPing(sensors, ships[i].id)]_vars

\* a ship performed a ping, was refused one inside the cooldown, and
\* performed another once the cooldown counted from the first had run out
C9_Witness ==
    \E i \in DOMAIN ships :
        \E a, b \in PerformedPings(sensors, ships[i].id) :
            \E r \in RefusedPings(sensors, ships[i].id, "cooldown") :
                /\ a < r /\ r < b
                /\ sensors.events[a].time < sensors.events[r].time
                /\ sensors.events[b].time - sensors.events[r].time < Cooldown(ships[i])

\* C10: a refused active ping (no active sensor: reason no_active; inside the
\* cooldown: reason cooldown) appends exactly one sensor_ping event with
\* performed false and that reason and changes nothing else: no contact, no
\* last-ping time; it returns the ship's current contacts.
C10_RefusedPingOnlyLogs ==
    [][last'.op = "execute_active_ping" =>
          LET ship == ships[FindShip(ships, last'.ship_id)]
              reason == IF ~HasActive(ship) THEN "no_active" ELSE "cooldown"
          IN (~HasActive(ship) \/ InsideCooldown(ship)) =>
                /\ LogExtended
                /\ Len(NewEvents) = 1
                /\ NewEvents[1].type = "sensor_ping"
                /\ NewEvents[1].sensor_ship_id = ship.id
                /\ NewEvents[1].time = sim_time
                /\ NewEvents[1].data = [performed |-> FALSE, reason |-> reason]
                /\ sensors'.contacts = sensors.contacts
                /\ sensors'.last_ping_time = sensors.last_ping_time
                /\ last'.reply = get_contacts_for_ship(sensors, ship.id)]_vars

\* a ship holding contacts was refused a ping inside its cooldown and got
\* those contacts back
C10_Witness ==
    /\ last.op = "execute_active_ping"
    /\ last.reply # <<>>
    /\ Len(sensors.events) > 0
    /\ sensors.events[Len(sensors.events)].type = "sensor_ping"
    /\ sensors.events[Len(sensors.events)].data = [performed |-> FALSE, reason |-> "cooldown"]
    /\ sensors.events[Len(sensors.events)].time > 0

(***************************************************************************)
(* The field-of-view test on its own: SensorsManager._within_fov applied   *)
(* to headings, bearings and widths in millidegrees.                       *)
(***************************************************************************)
\* headings: ahead along +X, either side of the 0/360 wrap, abeam, astern,
\* and configured values that were never wrapped
FovHeadings == {0, 5000, 90000, 180000, 350000, 359999, 400000, -10000}

\* widths: narrow, a quarter, a half, an odd number of millidegrees, just
\* under the full circle, the full circle and beyond, none
FovWidths == {60000, 90000, 180000, 45001, 359998, 360000, 400000, 0}

\* offsets of a bearing from the heading: ahead, astern, on each edge of the
\* field, one millidegree inside and outside each edge
FovOffsets(fov_deg) ==
    LET half == fov_deg \div 2
    IN {0, 180000, half, -half, half - 1, 1 - half, half + 1, -half - 1}

\* bearings as _range_and_bearing returns them, in [0, 360000)
FovBearings(orientation_deg, fov_deg) ==
    {(orientation_deg + o) % 360000 : o \in FovOffsets(fov_deg)}

InitFov ==
    /\ sim_time = 0
    /\ ships = <<>>
    /\ projectiles = <<>>
    /\ next_projectile_id = 1
    /\ sensors = SensorsInit
    /\ running = TRUE
    /\ loop_alive = TRUE
    /\ calls = 0
    /\ requests = NoRequests
    /\ \E h \in FovHeadings, f \in FovWidths :
          \E b \in FovBearings(h, f) :
             last = [op |-> "input", orientation_deg |-> h, bearing_deg |-> b,
                     fov_deg |-> f]

WithinFov ==
    /\ last.op = "input"
    /\ last' = [op |-> "_within_fov", orientation_deg |-> last.orientation_deg,
                bearing_deg |-> last.bearing_deg, fov_deg |-> last.fov_deg,
                reply |-> _within_fov(last.orientation_deg, last.bearing_deg,
                                      last.fov_deg)]
    /\ UNCHANGED <<sim_time, ships, projectiles, next_projectile_id, sensors, running,
                   loop_alive>>

NextFov == Free(WithinFov)

SpecFov == InitFov /\ [][NextFov]_vars

\* bearing - heading brought into [-180000, 180000)
WrappedOffset(bearing_deg, orientation_deg) ==
    LET d == (bearing_deg - orientation_deg) % 360000
    IN IF d >= 180000 THEN d - 360000 ELSE d

\* the bearing lies exactly fov / 2 to one side of the heading
OnFovEdge(orientation_deg, bearing_deg, fov_deg) ==
    \E side \in {-1, 1} :
        (2 * (bearing_deg - orientation_deg) - side * fov_deg) % 720000 = 0

\* C11: for a field of view under 360 degrees a target passes the test
\* exactly when -fov/2 < wrap(bearing - heading) < fov/2, the difference
\* wrapped to [-180,180): a target exactly on either edge is excluded, one
\* just inside is included, also across the 0/360 wrap; a field of view of
\* 360 degrees or more admits every bearing.
C11_WithinFovStrictWrapped ==
    last.op = "_within_fov" =>
        LET w == WrappedOffset(last.bearing_deg, last.orientation_deg)
            f == last.fov_deg
        IN /\ f >= 360000 => last.reply
           /\ f < 360000 => (last.reply <=> (-f < 2 * w /\ 2 * w < f))
           /\ (f < 360000 /\ OnFovEdge(last.orientation_deg, last.bearing_deg, f))
                 => ~last.reply

\* a target one millidegree inside the edge was admitted with the heading
\* short of the wrap and the bearing beyond it
C11_Witness ==
    /\ last.op = "_within_fov"
    /\ last.orientation_deg = 350000
    /\ last.fov_deg = 60000
    /\ last.bearing_deg = 19999
    /\ last.reply

(***************************************************************************)
(* Passive detection: a picket with a half-circle passive sensor among     *)
(* ships ahead, abeam, far off and faint, and a second sensing ship.       *)
(***************************************************************************)
Hull(id, position) ==
    [id |-> id, team |-> "red",
     position |-> position, velocity |-> <<0, 0, 0>>, orientation_deg |-> 0,
     mass_kg |-> 200000, signature |-> 1000,
     passive |-> EmptyDict,
     active |-> EmptyDict,
     ecm_strength |-> 0, eccm_strength |-> 0]

\* headings of the picket: along +X, and short of the 0/360 wrap
PicketHeadings == {0, 350000}

\* the picket senses 10 km over 180 degrees; the watcher senses 4 km all
\* round from 3 km along -Y; near is 5 km along +X, abeam 5 km along -Y, far
\* 20 km along +X, faint 9.8 km along +X
PassiveFleet(heading) ==
    <<InstantiateShip([AlphaCfg EXCEPT !.id = "picket", !.orientation_deg = heading,
                                       !.active = EmptyDict]),
      InstantiateShip([Hull("watcher", <<0, -3000000, 0>>) EXCEPT
                          !.passive = ("range_km" :> 4000)]),
      InstantiateShip(Hull("near", <<5000000, 0, 0>>)),
      InstantiateShip(Hull("abeam", <<0, -5000000, 0>>)),
      InstantiateShip(Hull("far", <<20000000, 0, 0>>)),
      InstantiateShip(Hull("faint", <<9800000, 0, 0>>))>>

InitPassive == InitWith({PassiveFleet(h) : h \in PicketHeadings})

NextPassive ==
    \/ Free(Elapse)
    \/ \E k \in 1..3 : Free(UpdatePassive(k))
    \/ Free(AdvanceTime)

SpecPassive == InitPassive /\ [][NextPassive]_vars

\* the entity meets the four conditions of a passive detection by the ship
Detectable(ship, ent) ==
    LET rb == _range_and_bearing(ship.position, ent.position)
        range_km == Get(ship.passive, "range_km", 0)
    IN /\ ent.id # ship.id
       /\ range_km > 0
       /\ rb.rng_km <= range_km
       /\ _within_fov(ship.orientation_deg, rb.bearing, Get(ship.passive, "fov_deg", 360000))
       /\ _detection_strength(ent.signature, rb.rng_km, range_km,
                              Get(ent, "ecm_strength", 0), ship.eccm_strength,
                              Get(ship.passive, "sensitivity", 1000))
             >= MinDetectionStrength

\* the contact the ship holds on the entity in that manager, NoData if none
ContactOn(SM, ship_id, ent_id) ==
    LET k == <<ship_id, ContactId(ship_id, ent_id)>>
    IN IF k \in ContactKeys(SM) THEN ContactAt(SM, k) ELSE NoData

\* C12: a passive detection pass for ship S creates or refreshes a contact
\* for exactly those entities that are not S itself, lie within S's passive
\* range, lie inside its field of view and reach the minimum detection
\* strength; no ship ever holds a contact on itself, and a pass for S never
\* adds, changes or removes a contact held by another ship.
C12_PassivePassDetectsExactly ==
    /\ [](\A k \in ContactKeys(sensors) :
             ContactAt(sensors, k).target_entity_id # k[1])
    /\ [][last'.op = "update_passive_for_ship" =>
            LET S == ships[FindShip(ships, last'.ship_id)]
            IN /\ \A i \in DOMAIN ships :
                     LET had == ContactOn(sensors, S.id, ships[i].id)
                         has == ContactOn(sensors', S.id, ships[i].id)
                     IN IF Detectable(S, ships[i])
                        THEN /\ has # NoData
                             /\ has.target_entity_id = ships[i].id
                             /\ has.sensor_ship_id = S.id
                             /\ has.last_seen_time = sim_time
                             /\ has.last_detection_type = "passive"
                             /\ ~has.stale
                             /\ had # NoData => has.first_seen_time = had.first_seen_time
                        ELSE has = had
               /\ \A k \in ContactKeys(sensors) \cup ContactKeys(sensors') :
                     /\ k[1] = S.id => \E i \in DOMAIN ships :
                                          k[2] = ContactId(S.id, ships[i].id)
                     /\ k[1] # S.id =>
                           /\ k \in ContactKeys(sensors) \cap ContactKeys(sensors')
                           /\ ContactAt(sensors', k) = ContactAt(sensors, k)]_vars

\* a pass for the picket refreshed a contact it had held for a while, left an
\* older contact of its own on an entity it did not detect, and left the
\* watcher's contact on the picket alone
C12_Witness ==
    /\ last.op = "update_passive_for_ship"
    /\ last.ship_id = "picket"
    /\ ContactOn(sensors, "watcher", "picket") # NoData
    /\ ContactOn(sensors, "watcher", "picket").last_seen_time < sim_time
    /\ ContactOn(sensors, "picket", "near") # NoData
    /\ ContactOn(sensors, "picket", "near").first_seen_time < sim_time
    /\ ContactOn(sensors, "picket", "near").last_seen_time = sim_time
    /\ ContactOn(sensors, "picket", "abeam") = NoData
    /\ ContactOn(sensors, "picket", "faint") = NoData
    /\ ContactOn(sensors, "picket", "far") = NoData

(***************************************************************************)
(* fire_weapon on request threads.  The handler takes no lock, so its      *)
(* reads and writes of the controller's fields interleave with those of    *)
(* another thread inside the same handler; each step below is one of them. *)
(***************************************************************************)
\* fire_weapon calls begun, over all threads
MaxShots == 3

\* the projectile dict built from the ship found, its id still to be set
Torpedo(ship) ==
    LET forward == yaw_deg_to_forward_vector(ship.orientation_deg)
    IN [id |-> "",
        type |-> "torpedo",
        team |-> ship.team,
        position |-> ship.position,
        velocity |-> [j \in 1..3 |-> ship.velocity[j] + forward[j] * MuzzleVelocity],
        mass_kg |-> 100,
        ttl |-> ProjectileTtl,
        signature |-> 300]

\* ship = next(...); the unknown_ship return, or the reads of the ship's
\* position, velocity and yaw
FireLookup(t, ship_id) ==
    /\ calls < MaxShots
    /\ calls' = calls + 1
    /\ requests[t].pc = "idle"
    /\ LET i == FindShip(ships, ship_id)
       IN IF i = 0
          THEN /\ last' = [op |-> "fire_weapon", ship_id |-> ship_id,
                           reply |-> [error |-> "unknown_ship", ship_id |-> ship_id]]
               /\ UNCHANGED requests
          ELSE /\ requests' = [requests EXCEPT ![t] =
                                  [pc |-> "format", ship_id |-> ship_id,
                                   shot |-> Torpedo(ships[i]), n |-> 0,
                                   returned |-> @.returned]]
               /\ UNCHANGED last
    /\ UNCHANGED <<sim_time, ships, projectiles, next_projectile_id, sensors, running,
                   loop_alive>>

\* proj_id = f"{ship_id}_proj_{self._next_projectile_id}"
FireFormatId(t) ==
    /\ requests[t].pc = "format"
    /\ requests' = [requests EXCEPT
                       ![t].pc = "load",
                       ![t].shot.id = ProjectileId(requests[t].ship_id, next_projectile_id)]
    /\ UNCHANGED <<sim_time, ships, projectiles, next_projectile_id, sensors, running,
                   loop_alive, last, calls>>

\* self._next_projectile_id += 1: the read of the field
FireLoadCounter(t) ==
    /\ requests[t].pc = "load"
    /\ requests' = [requests EXCEPT ![t].pc = "store", ![t].n = next_projectile_id]
    /\ UNCHANGED <<sim_time, ships, projectiles, next_projectile_id, sensors, running,
                   loop_alive, last, calls>>

\* self._next_projectile_id += 1: the write of the sum
FireStoreCounter(t) ==
    /\ requests[t].pc = "store"
    /\ next_projectile_id' = requests[t].n + 1
    /\ requests' = [requests EXCEPT ![t].pc = "append"]
    /\ UNCHANGED <<sim_time, ships, projectiles, sensors, running, loop_alive, last, calls>>

\* self.projectiles.append(projectile); return {"projectile_id": proj_id}
FireAppend(t) ==
    /\ requests[t].pc = "append"
    /\ projectiles' = Append(projectiles, requests[t].shot)
    /\ last' = [op |-> "fire_weapon", ship_id |-> requests[t].ship_id,
                reply |-> [projectile_id |-> requests[t].shot.id]]
    /\ requests' = [requests EXCEPT ![t] =
                       [pc |-> "idle",
                        returned |-> Append(requests[t].returned, requests[t].shot.id)]]
    /\ UNCHANGED <<sim_time, ships, next_projectile_id, sensors, running, loop_alive, calls>>

NextFire ==
    \E t \in Threads :
        \/ \E id \in ShipIds : FireLookup(t, id)
        \/ FireFormatId(t)
        \/ FireLoadCounter(t)
        \/ FireStoreCounter(t)
        \/ FireAppend(t)

SpecFire == Init /\ [][NextFire]_vars

\* the successful fire_weapon returns so far, each as <<thread, position in
\* that thread's returns>>
FireReturns == {r \in Threads \X (1..MaxShots) : r[2] <= Len(requests[r[1]].returned)}

\* C13: every successful fire_weapon call returns a projectile id that no
\* other fire_weapon call has returned, for any interleaving of calls arriving
\* on different request threads, two calls for the same ship included.
C13_ProjectileIdsUnique ==
    \A a, b \in FireReturns :
        a # b => requests[a[1]].returned[a[2]] # requests[b[1]].returned[b[2]]

\* the projectile id counter never goes down
NextProjectileIdOnlyIncreases ==
    [][next_projectile_id' >= next_projectile_id]_vars

(***************************************************************************)
(* Projectiles in flight: a ship without sensors fires early on, and the   *)
(* loop runs until every projectile fired has outlived its ttl.            *)
(***************************************************************************)
\* the fire_weapon call is made after the loop's first pass and before
\* sim_time has gone beyond this
MaxFireTime == 1
\* the loop is followed up to this sim_time: past the ttl of a projectile
\* fired last
MaxFlightTime == 3004

FlightFleet == <<InstantiateShip([BravoCfg EXCEPT !.velocity = <<0, 3000, 0>>])>>

InitFlight == InitWith({FlightFleet})

FlightTick == sim_time < MaxFlightTime /\ LoopPass

\* a client that fires once: a fire_weapon call by request thread t, which
\* notes the id it is returned and the sim_time of the call
FlightFire(t, ship_id) ==
    /\ 0 < sim_time
    /\ sim_time <= MaxFireTime
    /\ requests[t].returned = <<>>
    /\ FireWeapon(ship_id, "tube_1")
    /\ requests' = [requests EXCEPT ![t].returned =
                       IF "projectile_id" \in DOMAIN last'.reply
                       THEN Append(@, [id |-> last'.reply.projectile_id, at |-> sim_time])
                       ELSE @]
    /\ UNCHANGED calls

\* the loop thread's next step
FlightLoop == Free(FlightTick)

NextFlight ==
    \/ FlightLoop
    \/ \E id \in {"bravo", "ghost"} : FlightFire(1, id)

SpecFlight == InitFlight /\ [][NextFlight]_vars

\* the loop thread gets to run: it sleeps one period and makes its next pass
SpecFlightFair == SpecFlight /\ WF_vars(FlightLoop)

\* the fire_weapon calls that returned an id
Fired == {requests[1].returned[j] : j \in DOMAIN requests[1].returned}

\* the positions in the projectile list of the projectile with that id
InFlight(P, id) == {k \in DOMAIN P : P[k].id = id}

MaxCoastTime == 11

\* headings of the ship at rest: along +X, along +Y, into the third quadrant
CoastHeadings == {0, 90000, 210000}

\* forward throttles commanded: 0.5, full, astern, none
CoastThrottles == {500, 1000, -250, 0}

CoastFleet(heading) == <<InstantiateShip([AlphaCfg EXCEPT !.orientation_deg = heading])>>

InitCoast == InitWith({CoastFleet(h) : h \in CoastHeadings})

CoastTick == sim_time < MaxCoastTime /\ LoopPass

\* the one helm input, made before the first tick by request thread t, which
\* keeps the throttle it sent
CoastHelm(t, throttle) ==
    /\ sim_time = 0
    /\ requests[t].returned = <<>>
    /\ SetHelmInput("alpha", ListV(<<Num(0), Num(0), Num(throttle)>>), Num(0))
    /\ requests' = [requests EXCEPT ![t].returned = <<throttle>>]
    /\ UNCHANGED calls

\* get_state by request thread t, which keeps the velocity it reads
CoastObserve(t) ==
    /\ sim_time > 0
    /\ requests[t].returned = <<>>
    /\ requests' = [requests EXCEPT ![t].returned =
                       <<[at |-> sim_time, velocity |-> ships[1].velocity]>>]
    /\ UNCHANGED <<sim_time, ships, projectiles, next_projectile_id, sensors, running,
                   loop_alive, last, calls>>

NextCoast ==
    \/ Free(CoastTick)
    \/ \E throttle \in CoastThrottles : CoastHelm(2, throttle)
    \/ CoastObserve(1)

SpecCoast == InitCoast /\ [][NextCoast]_vars

\* what one tick adds to the velocity of a ship that does not turn:
\* max thrust * throttle / mass along the forward vector, times dt
ThrustGain(ship, throttle) ==
    LET accel == (Get(ship.physics, "max_main_thrust_newton", DefaultMaxThrust) * throttle)
                     \div ship.mass_kg
        forward == <<CosMilli(ship.orientation_deg), SinMilli(ship.orientation_deg), 0>>
    IN [j \in 1..3 |-> (((forward[j] * accel) \div 1000) * DT) \div 10]

\* the velocity the client read and when
Observed == requests[1].returned

\* the forward throttle the helm input asked for, none if none was made
Commanded == IF requests[2].returned = <<>> THEN 0 ELSE requests[2].returned[1]

\* the ship of the end-to-end case: heading along +X, forward thrust 0.5
EndToEndCase ==
    /\ ships[1].orientation_deg = 0
    /\ Commanded = 500
    /\ ships[1].mass_kg = 1000000
    /\ Get(ships[1].physics, "max_main_thrust_newton", DefaultMaxThrust) = 1000000

\* C15 as stated: for a ship at rest at the origin with forward thrust 0.5,
\* zero rotation, mass 1,000,000 kg, max thrust 1,000,000 N, dt 0.1 s and no
\* gravity bodies, 10 further ticks after the first with no further input
\* leave the velocity unchanged from its value after that first tick.
C15_CoastAfterFirstTick ==
    (/\ EndToEndCase
     /\ Observed # <<>>
     /\ Observed[1].at = 1
     /\ sim_time = 11)
        => ships[1].velocity = Observed[1].velocity

\* C15 amended: the helm input stays in the ship's controls, so every further
\* tick without input adds the same thrust gain again: k ticks after the
\* velocity was read, the velocity is the one read plus k gains, and it is
\* unchanged only where the gain is zero.
C15_ThrustHeldAcrossTicks ==
    Observed # <<>> =>
        LET k == sim_time - Observed[1].at
            gain == ThrustGain(ships[1], Commanded)
        IN /\ \A j \in 1..3 :
                 ships[1].velocity[j] = Observed[1].velocity[j] + k * gain[j]
           /\ (EndToEndCase /\ Observed[1].at = 1) =>
                 /\ Observed[1].velocity = <<50, 0, 0>>
                 /\ ships[1].velocity = <<50 * (k + 1), 0, 0>>

\* the end-to-end case 10 ticks after its first: 0.05 m/s read after the
\* first tick, 0.55 m/s now
C15_Witness ==
    /\ EndToEndCase
    /\ Observed # <<>>
    /\ Observed[1].at = 1
    /\ Observed[1].velocity = <<50, 0, 0>>
    /\ sim_time = 11
    /\ ships[1].velocity = <<550, 0, 0>>

(***************************************************************************)
(* Twin ships: two ships alike in everything but their id, given helm      *)
(* inputs that differ only in the lateral and vertical thrust components.  *)
(***************************************************************************)
MaxTwinTime == 3
MaxTwinCalls == 2

TwinFleet ==
    <<InstantiateShip([BravoCfg EXCEPT !.id = "twin_a", !.velocity = <<0, 3000, 0>>]),
      InstantiateShip([BravoCfg EXCEPT !.id = "twin_b", !.velocity = <<0, 3000, 0>>])>>

InitTwin == InitWith({TwinFleet})

\* lateral and vertical components: none, within [-1,1], beyond it
TwinLaterals == {<<0, 0>>, <<700, -300>>, <<-3000, 1500>>}

\* forward components: none, 0.5, beyond 1
TwinForwards == {0, 500, 2000}

\* yaw rates: none, within the cap, beyond it
TwinYawRates == {0, 3000, -50000}

TwinTick == sim_time < MaxTwinTime /\ LoopPass

\* request thread t sends each twin a helm input with that forward component
\* and yaw rate, twin_a with the lateral components lat_a and twin_b with
\* lat_b, and keeps what it sent
TwinHelm(t, lat_a, lat_b, forward, yaw_rate) ==
    /\ calls < MaxTwinCalls
    /\ calls' = calls + 1
    /\ LET r1 == set_helm_input(ships, "twin_a",
                                ListV(<<Num(lat_a[1]), Num(lat_a[2]), Num(forward)>>),
                                Num(yaw_rate), NoMode)
           r2 == set_helm_input(r1.ships, "twin_b",
                                ListV(<<Num(lat_b[1]), Num(lat_b[2]), Num(forward)>>),
                                Num(yaw_rate), NoMode)
       IN /\ ships' = r2.ships
          /\ last' = [op |-> "set_helm_input", ship_id |-> "twin_b", reply |-> r2.reply]
    /\ requests' = [requests EXCEPT ![t].returned = <<[twin_a |-> lat_a, twin_b |-> lat_b]>>]
    /\ UNCHANGED <<sim_time, projectiles, next_projectile_id, sensors, running, loop_alive>>

NextTwin ==
    \/ Free(TwinTick)
    \/ \E lat_a, lat_b \in TwinLaterals, forward \in TwinForwards, yaw_rate \in TwinYawRates :
          TwinHelm(1, lat_a, lat_b, forward, yaw_rate)

SpecTwin == InitTwin /\ [][NextTwin]_vars

\* the lateral components last sent to each twin
SentLaterals == requests[1].returned

\* C16: the first two components of a ship's thrust_vector never influence
\* its motion: two ships that differ only in those components have the same
\* position, velocity and yaw after any number of ticks, while each ship's
\* stored thrust_vector keeps the clamped lateral and vertical values sent.
C16_LateralThrustIgnored ==
    /\ ships[1].position = ships[2].position
    /\ ships[1].velocity = ships[2].velocity
    /\ ships[1].orientation_deg = ships[2].orientation_deg
    /\ SentLaterals # <<>> =>
          \A j \in 1..2 :
             /\ ships[1].controls.thrust_vector[j] = Clamp(SentLaterals[1].twin_a[j], -1000, 1000)
             /\ ships[2].controls.thrust_vector[j] = Clamp(SentLaterals[1].twin_b[j], -1000, 1000)

\* the twins have thrust and turned through ticks under inputs whose lateral
\* components differ and needed clamping, and still hold those components
C16_Witness ==
    /\ last.op = "tick"
    /\ sim_time >= 2
    /\ SentLaterals # <<>>
    /\ SentLaterals[1].twin_a = <<-3000, 1500>>
    /\ SentLaterals[1].twin_b = <<700, -300>>
    /\ ships[1].controls.thrust_vector = <<-1000, 1000, 1000>>
    /\ ships[2].controls.thrust_vector = <<700, -300, 1000>>
    /\ ships[1].controls.rotation_deg_s.yaw # 0
    /\ ships[1].velocity # TwinFleet[1].velocity
    /\ ships[1].orientation_deg # TwinFleet[1].orientation_deg

(***************************************************************************)
(* Stored orientation: fleets whose entries configure any heading, under   *)
(* ticks and helm inputs.  The integrator the loop runs keeps a yaw only;  *)
(* ships carry no stored pitch.                                            *)
(***************************************************************************)
MaxYawTime == 2

\* orientation_deg of a fleet entry: in [0, 360), on its upper edge, beyond
\* it, below it
ConfiguredHeadings == {0, 359999, 360000, 400000, -10000}

InitYaw ==
    InitWith({<<InstantiateShip([BravoCfg EXCEPT !.orientation_deg = h])>> :
                 h \in ConfiguredHeadings})

YawTick == sim_time < MaxYawTime /\ LoopPass

NextYaw ==
    \/ Free(YawTick)
    \/ \E rot \in RotationInputs :
          Free(SetHelmInput("bravo", ListV(<<Num(0), Num(0), Num(500)>>), rot))

SpecYaw == InitYaw /\ [][NextYaw]_vars

\* C17: at all times, from ship instantiation onward and after every tick,
\* each ship's stored yaw lies in [0,360), whatever initial orientation was
\* configured and whatever rotation rates are commanded.
C17_StoredYawWrapped ==
    \A i \in DOMAIN ships :
        0 <= ships[i].orientation_deg /\ ships[i].orientation_deg < 360000

\* once the loop has made a pass, every stored yaw lies in [0,360)
YawWrappedAfterTick ==
    sim_time > 0 => C17_StoredYawWrapped

(***************************************************************************)
(* The helm-input helpers of sim/autopilot.py: pure functions of a ship    *)
(* dict.  The ships here carry no orientation_euler_deg, so the helpers    *)
(* read the yaw from orientation_deg and take pitch and roll as 0.         *)
(***************************************************************************)
\* (angle + 180.0) % 360.0 - 180.0
_wrap_angle_deg(angle) == ((angle + 180000) % 360000) - 180000

_extract_euler(ship) == [yaw |-> ship.orientation_deg, pitch |-> 0, roll |-> 0]

\* yaw and pitch facing direction; the direction is a positive multiple of
\* the vector given, whose zeros are positive zeros
_desired_angles_for_direction(direction) ==
    [yaw |-> Atan2Mdeg(direction[2], direction[1]),
     pitch |-> Atan2Mdeg(direction[3], Len3(<<direction[1], direction[2], 0>>))]

\* the same for the direction opposite vel, whose zeros are negative zeros
DesiredAnglesOpposite(vel) ==
    [yaw |-> Atan2Negated(vel[2], vel[1]),
     pitch |-> Atan2Mdeg(-vel[3], Len3(<<vel[1], vel[2], 0>>))]

_rotation_command_towards(euler, desired, limits) ==
    [yaw |-> Clamp(_wrap_angle_deg(desired.yaw - euler.yaw), -limits.yaw, limits.yaw),
     pitch |-> Clamp(_wrap_angle_deg(desired.pitch - euler.pitch), -limits.pitch, limits.pitch),
     roll |-> Clamp(_wrap_angle_deg(0 - euler.roll), -limits.roll, limits.roll)]

NoRotation == [yaw |-> 0, pitch |-> 0, roll |-> 0]

\* throttle: speed over five seconds of full acceleration, in [0.1, 1.0]
compute_kill_velocity_helm_inputs(ship) ==
    LET speed == Len3(ship.velocity)
        max_thrust == Get(ship.physics, "max_main_thrust_newton", DefaultMaxThrust)
        max_accel == (1000 * max_thrust) \div Max(ship.mass_kg, 1)
        throttle == Clamp((1000 * speed) \div Max(max_accel * 5, 1), 100, 1000)
    IN IF speed = 0
       THEN [thrust_vector |-> <<0, 0, 0>>, rotation_deg_s |-> NoRotation]
       ELSE [thrust_vector |-> <<0, 0, throttle>>,
             rotation_deg_s |-> _rotation_command_towards(_extract_euler(ship),
                                    DesiredAnglesOpposite(ship.velocity),
                                    _physics_limits(ship))]

\* None where the target position is the ship's own
NoneReply == [none |-> TRUE]

compute_point_at_target_helm_inputs(ship, target_position) ==
    LET d == [j \in 1..3 |-> target_position[j] - ship.position[j]]
    IN IF d = <<0, 0, 0>> THEN NoneReply
       ELSE [thrust_vector |-> <<0, 0, 0>>,
             rotation_deg_s |-> _rotation_command_towards(_extract_euler(ship),
                                    _desired_angles_for_direction(d),
                                    _physics_limits(ship))]

(***************************************************************************)
(* kill_vel: one ship with a configured velocity and heading; a client     *)
(* engages or disengages kill_vel, the loop ticks, and the kill-velocity   *)
(* helper is evaluated on the ship as it stands.                           *)
(***************************************************************************)
MaxKillTime == 2

\* fast along +X, slow, straight up, oblique, along -X, slow but above the
\* stop threshold
KillVelocities ==
    {<<1000, 0, 0>>, <<300, 0, 0>>, <<0, 0, 5000>>, <<-3000, 4000, 0>>,
     <<-2000, 0, 0>>, <<0, -700, 0>>}

KillHeadings == {0, 90000, 177000, 357000}

InitKill ==
    InitWith({<<InstantiateShip([AlphaCfg EXCEPT !.velocity = v, !.orientation_deg = h])>> :
                 v \in KillVelocities, h \in KillHeadings})

KillTick == sim_time < MaxKillTime /\ LoopPass

KillHelper ==
    /\ last' = [op |-> "compute_kill_velocity_helm_inputs",
                reply |-> compute_kill_velocity_helm_inputs(ships[1])]
    /\ UNCHANGED <<sim_time, ships, projectiles, next_projectile_id, sensors,
                   running, loop_alive>>

NextKill ==
    \/ Free(KillTick)
    \/ \E en \in BOOLEAN : Free(SetAutopilotMode("alpha", en, StrV("kill_vel"), EmptyDict))
    \/ Free(KillHelper)

SpecKill == InitKill /\ [][NextKill]_vars

\* the heading of the direction opposite a velocity; where the velocity has
\* no horizontal part the code's atan2 of two negative zeros gives -180
OppositeHeading(vel) ==
    IF vel[1] = 0 /\ vel[2] = 0 THEN -180000 ELSE Atan2Mdeg(-vel[2], -vel[1])

\* gain 1.0 times the heading error wrapped to [-180,180], clamped to the
\* ship's max yaw rate
KillYawCommand(ship) ==
    LET err == ((OppositeHeading(ship.velocity) - ship.orientation_deg + 180000) % 360000)
               - 180000
        cap == MaxYawRate(ship)
    IN IF err > cap THEN cap ELSE IF err < -cap THEN -cap ELSE err

KillVelEngaged(ship) ==
    ship.autopilot.enabled /\ ship.autopilot.mode = "kill_vel"

NonZero(vel) == vel # <<0, 0, 0>>

\* for every non-zero velocity and every current yaw the kill_vel pass of a
\* tick commands the clamped heading error toward the direction opposite the
\* velocity, and so does the helper
C18_KillVelYawEveryVelocity ==
    /\ [][last'.op = "tick" =>
            \A i \in DOMAIN ships :
                KillVelEngaged(ships[i]) /\ NonZero(ships[i].velocity) =>
                    ships'[i].controls.rotation_deg_s.yaw = KillYawCommand(ships[i])]_vars
    /\ [](last.op = "compute_kill_velocity_helm_inputs" /\ NonZero(ships[1].velocity) =>
            last.reply.rotation_deg_s.yaw = KillYawCommand(ships[1]))

\* C18: for every velocity of speed at least the stop threshold (0.5) and
\* every current yaw, the kill_vel yaw command equals the heading error
\* toward the direction opposite the velocity (wrapped to [-180,180], gain
\* 1.0) clamped to plus or minus the ship's max yaw rate; below the threshold
\* the pass commands zero rotation and thrust and leaves kill_vel; the helper
\* commands the clamped error for every non-zero velocity; in particular for
\* velocity [1,0,0] and current yaw 0 the command is non-positive and its
\* magnitude never exceeds the max yaw rate.
C18_KillVelYawCommand ==
    /\ [][last'.op = "tick" =>
            \A i \in DOMAIN ships :
                KillVelEngaged(ships[i]) /\ NonZero(ships[i].velocity) =>
                    LET c == ships'[i].controls
                    IN /\ Len3(ships[i].velocity) >= StopThreshold =>
                            /\ c.rotation_deg_s.yaw = KillYawCommand(ships[i])
                            /\ KillVelEngaged(ships'[i])
                       /\ Len3(ships[i].velocity) < StopThreshold =>
                            /\ c.rotation_deg_s = NoRotation
                            /\ c.thrust_vector = <<0, 0, 0>>
                            /\ ~ships'[i].autopilot.enabled
                            /\ ships'[i].autopilot.mode = "manual"
                       /\ ships[i].velocity = <<1000, 0, 0>> /\ ships[i].orientation_deg = 0 =>
                            /\ c.rotation_deg_s.yaw <= 0
                            /\ -c.rotation_deg_s.yaw <= MaxYawRate(ships[i])]_vars
    /\ [](last.op = "compute_kill_velocity_helm_inputs" /\ NonZero(ships[1].velocity) =>
            /\ last.reply.rotation_deg_s.yaw = KillYawCommand(ships[1])
            /\ ships[1].velocity = <<1000, 0, 0>> /\ ships[1].orientation_deg = 0 =>
                 /\ last.reply.rotation_deg_s.yaw <= 0
                 /\ -last.reply.rotation_deg_s.yaw <= MaxYawRate(ships[1]))

\* a tick has left a kill_vel command that is a heading error inside the cap
C18_Witness ==
    /\ last.op = "tick"
    /\ KillVelEngaged(ships[1])
    /\ ships[1].controls.thrust_vector[3] >= 100
    /\ ships[1].controls.rotation_deg_s.yaw \notin {0, MaxYawRate(ships[1]), -MaxYawRate(ships[1])}

(***************************************************************************)
(* The autopilot at work: a pilot ship with its own cap on each axis and a *)
(* moving target ship.  A client stores helm input, picks the target and   *)
(* the mode, the loop ticks, and the helpers are evaluated on the pilot.   *)
(***************************************************************************)
MaxPilotTime == 2
MaxPilotCalls == 3

PilotCaps ==
    ("max_main_thrust_newton" :> 1000000) @@ ("max_rcs_yaw_deg_s" :> 5000)
    @@ ("max_rcs_pitch_deg_s" :> 3000) @@ ("max_rcs_roll_deg_s" :> 4000)

\* the target: inside the default min range, 1024.4 m ahead, 3000.068 m
\* abeam, far astern
TargetPositions ==
    {<<500000, 0, 0>>, <<1024400, 0, 0>>, <<0, 3000068, 0>>, <<-4000000, -4000000, 0>>}

\* the pilot: at rest, climbing fast, drifting just above the stop threshold
PilotVelocities == {<<0, 0, 0>>, <<0, 0, 30000>>, <<-400, 300, 0>>}

PilotFleet(vel, pos) ==
    <<InstantiateShip([AlphaCfg EXCEPT !.velocity = vel, !.orientation_deg = 357000]
                      @@ [physics |-> PilotCaps]),
      InstantiateShip([BravoCfg EXCEPT !.position = pos, !.velocity = <<0, 200000, 0>>])>>

InitPilot ==
    InitWith({PilotFleet(vel, pos) : vel \in PilotVelocities, pos \in TargetPositions})

\* range parameters: the defaults, ranges the target sits exactly on, a min
\* range beyond the desired range
PilotParams ==
    {EmptyDict,
     ("desired_range_m" :> Num(3000068)) @@ ("min_range_m" :> Num(1024400)),
     ("desired_range_m" :> Num(2000000)) @@ ("min_range_m" :> Num(6000000))}

PilotSettings ==
    {<<"coast", EmptyDict>>, <<"kill_vel", EmptyDict>>}
    \cup {<<"chase_target", ps>> : ps \in PilotParams}

\* helm input beyond every cap of the pilot
WildHelm == DictV(("yaw" :> Num(20000)) @@ ("pitch" :> Num(50000)) @@ ("roll" :> Num(-50000)))

PilotCall(A) == calls < MaxPilotCalls /\ A /\ calls' = calls + 1 /\ UNCHANGED requests

PilotTick == sim_time < MaxPilotTime /\ LoopPass

\* a client stores helm input beyond the caps and notes the pitch rate of
\* the reply
PilotWildHelm(t) ==
    /\ calls < MaxPilotCalls
    /\ SetHelmInput("alpha", ListV(<<Num(-3000), Num(200), Num(1500)>>), WildHelm)
    /\ calls' = calls + 1
    /\ requests' = [requests EXCEPT ![t].returned = <<last'.reply.controls.rotation_deg_s.pitch>>]

\* positions handed to the point-at-target helper: the target ship's, the
\* pilot's own, straight above the pilot
PointTargets ==
    {ships[2].position, ships[1].position,
     <<ships[1].position[1], ships[1].position[2], ships[1].position[3] + 1000000>>}

PointHelper(target_position) ==
    /\ last' = [op |-> "compute_point_at_target_helm_inputs",
                reply |-> compute_point_at_target_helm_inputs(ships[1], target_position)]
    /\ UNCHANGED <<sim_time, ships, projectiles, next_projectile_id, sensors,
                   running, loop_alive>>

NextPilot ==
    \/ Free(PilotTick)
    \/ \E st \in PilotSettings : PilotCall(SetAutopilotMode("alpha", TRUE, StrV(st[1]), st[2]))
    \/ \E t \in TargetInputs : PilotCall(SetTarget("alpha", t))
    \/ PilotWildHelm(1)
    \/ Free(KillHelper)
    \/ \E tp \in PointTargets : Free(PointHelper(tp))

SpecPilot == InitPilot /\ [][NextPilot]_vars

\* the first ship with that id
ShipNamed(id) == ships[CHOOSE j \in DOMAIN ships : ships[j].id = id]

Resolves(id) == \E j \in DOMAIN ships : ships[j].id = id

\* the pass of the coming tick stores a helm input for the ship: it is in
\* coast or kill_vel, or in chase_target without a target (which coasts) or
\* with one that resolves
AutopilotCommands(ship) ==
    /\ ship.autopilot.enabled
    /\ \/ ship.autopilot.mode \in {"coast", "kill_vel"}
       \/ /\ ship.autopilot.mode = "chase_target"
          /\ ship.current_target_id = NoTarget \/ Resolves(ship.current_target_id)

\* rates within the caps of their axes, no lateral or vertical thrust, the
\* forward throttle in [lo, 1]
HelmWithin(thrust, rot, ship, lo) ==
    /\ -MaxYawRate(ship) <= rot.yaw /\ rot.yaw <= MaxYawRate(ship)
    /\ -Get(ship.physics, "max_rcs_pitch_deg_s", MaxYawRate(ship)) <= rot.pitch
    /\ rot.pitch <= Get(ship.physics, "max_rcs_pitch_deg_s", MaxYawRate(ship))
    /\ -Get(ship.physics, "max_rcs_roll_deg_s", MaxYawRate(ship)) <= rot.roll
    /\ rot.roll <= Get(ship.physics, "max_rcs_roll_deg_s", MaxYawRate(ship))
    /\ thrust[1] = 0 /\ thrust[2] = 0
    /\ lo <= thrust[3] /\ thrust[3] <= 1000

Braking(ship) ==
    ship.autopilot.mode = "kill_vel" /\ Len3(ship.velocity) >= StopThreshold

HelmChanged(i) ==
    \/ ships'[i].controls.thrust_vector # ships[i].controls.thrust_vector
    \/ ships'[i].controls.rotation_deg_s # ships[i].controls.rotation_deg_s

MinRange(ship) == Get(ship.autopilot.params, "min_range_m", Num(DefaultMinRange)).n
DesiredRange(ship) == Get(ship.autopilot.params, "desired_range_m", Num(DefaultDesiredRange)).n

Chasing(ship) ==
    /\ ship.autopilot.enabled
    /\ ship.autopilot.mode = "chase_target"
    /\ ship.current_target_id # NoTarget
    /\ Resolves(ship.current_target_id)

Offset(ship) ==
    [j \in 1..3 |-> ShipNamed(ship.current_target_id).position[j] - ship.position[j]]

\* gain 1.0 times the bearing error to the target, wrapped to [-180,180] and
\* clamped to the ship's max yaw rate
ChaseYawCommand(ship) ==
    LET d == Offset(ship)
        err == ((Atan2Mdeg(d[2], d[1]) - ship.orientation_deg + 180000) % 360000) - 180000
        cap == MaxYawRate(ship)
    IN IF err > cap THEN cap ELSE IF err < -cap THEN -cap ELSE err

\* the forward throttle is 0 when distance < min_range_m, 0.3 when
\* min_range_m <= distance < desired_range_m and 0.8 when distance >=
\* desired_range_m, whatever the two ranges are
C20_ChaseTiersAnyRanges ==
    [][last'.op = "tick" =>
          \A i \in DOMAIN ships :
              Chasing(ships[i]) =>
                  LET dist == Len3(Offset(ships[i]))
                      throttle == ships'[i].controls.thrust_vector[3]
                  IN /\ dist < MinRange(ships[i]) => throttle = 0
                     /\ MinRange(ships[i]) <= dist /\ dist < DesiredRange(ships[i]) =>
                            throttle = 300
                     /\ dist >= DesiredRange(ships[i]) => throttle = 800]_vars

\* C20: in chase_target mode with a target that resolves to a live entity,
\* the forward throttle is 0 when distance < min_range_m, 0.3 when
\* min_range_m <= distance < desired_range_m and 0.8 when distance >= both
\* min_range_m and desired_range_m, and the yaw command is the bearing error
\* to the target's current position (wrapped to [-180,180], gain 1.0) clamped
\* to the ship's max yaw rate.
C20_ChaseTargetCommand ==
    [][last'.op = "tick" =>
          \A i \in DOMAIN ships :
              Chasing(ships[i]) =>
                  LET dist == Len3(Offset(ships[i]))
                      c == ships'[i].controls
                  IN /\ dist < MinRange(ships[i]) => c.thrust_vector[3] = 0
                     /\ MinRange(ships[i]) <= dist /\ dist < DesiredRange(ships[i]) =>
                            c.thrust_vector[3] = 300
                     /\ dist >= DesiredRange(ships[i]) /\ dist >= MinRange(ships[i]) =>
                            c.thrust_vector[3] = 800
                     /\ c.rotation_deg_s.yaw = ChaseYawCommand(ships[i])]_vars

\* a second tick of a chase has steered by where the target has moved to,
\* at the throttle of the middle tier
C20_Witness ==
    /\ last.op = "tick"
    /\ sim_time = 2
    /\ Chasing(ships[1])
    /\ ships[1].controls.thrust_vector = <<0, 0, 300>>
    /\ ships[1].controls.rotation_deg_s.yaw \notin {0, 5000, -5000}

(***************************************************************************)
(* A chase whose target stops resolving.  The run starts late in the life  *)
(* of a torpedo: two ships without sensors lie at rest, "bravo" fired at   *)
(* time 0, and MaxQuietTime ticks have passed with no other command.       *)
(***************************************************************************)
MaxQuietTime == 2998
MaxChaseTicks == 4
MaxChaseCalls == 3

ChaseFleet ==
    <<InstantiateShip([BravoCfg EXCEPT !.id = "chaser", !.position = <<0, 0, 0>>,
                                       !.orientation_deg = 0]),
      InstantiateShip(BravoCfg)>>

\* a projectile after n ticks free of gravity: n applications of
\* StepProjectile
Coasted(p, n) ==
    [p EXCEPT !.position = [j \in 1..3 |-> p.position[j] + n * TimesDt(p.velocity[j])],
              !.ttl = p.ttl - n * DT]

InitChase ==
    LET shot == fire_weapon(ChaseFleet, <<>>, 1, "bravo", "tube_1")
    IN /\ sim_time = MaxQuietTime
       /\ ships = ChaseFleet
       /\ projectiles = <<Coasted(shot.projectiles[1], MaxQuietTime)>>
       /\ next_projectile_id = shot.next_id
       /\ sensors = SensorsInit
       /\ running = TRUE
       /\ loop_alive = TRUE
       /\ last = [op |-> "tick"]
       /\ calls = 0
       /\ requests = NoRequests

ChaseTick == sim_time < MaxQuietTime + MaxChaseTicks /\ LoopPass

ChaseCall(A) == calls < MaxChaseCalls /\ A /\ calls' = calls + 1 /\ UNCHANGED requests

\* targets: a ship, the torpedo in flight, an id that never existed
ChaseTargets == {"bravo", "bravo_proj_1", "nobody"}

\* range parameters: the defaults, a desired range that is no number
ChaseParams == {EmptyDict, ("desired_range_m" :> BadStr)}

NextChase ==
    \/ Free(ChaseTick)
    \/ \E t \in ChaseTargets : ChaseCall(SetTarget("chaser", t))
    \/ \E ps \in ChaseParams :
          ChaseCall(SetAutopilotMode("chaser", TRUE, StrV("chase_target"), ps))

SpecChase == InitChase /\ [][NextChase]_vars

\* the ids of the ships and the live projectiles
LiveIds == {ships[j].id : j \in DOMAIN ships} \cup {projectiles[j].id : j \in DOMAIN projectiles}

ChasingLost(ship) ==
    /\ ship.autopilot.enabled
    /\ ship.autopilot.mode = "chase_target"
    /\ ship.current_target_id # NoTarget
    /\ ship.current_target_id \notin LiveIds

\* C21: if a ship with chase_target enabled has a current_target_id that
\* matches no ship and no live projectile when the autopilot pass runs (an id
\* that never existed, or a projectile that has since expired), that pass
\* sets the ship's autopilot to enabled=false, mode=manual, on the first tick
\* after the target stops resolving; while the target resolves the chase
\* stays engaged.
C21_LostTargetDisablesChase ==
    [][last'.op = "tick" =>
          \A i \in DOMAIN ships :
              /\ ChasingLost(ships[i]) =>
                    /\ ~ships'[i].autopilot.enabled
                    /\ ships'[i].autopilot.mode = "manual"
              /\ ships[i].autopilot.enabled /\ ~ChasingLost(ships[i]) =>
                    ships'[i].autopilot = ships[i].autopilot]_vars

\* the torpedo a ship was chasing expired on the tick before, and this tick
\* has switched the chase off
C21_Witness ==
    /\ last.op = "tick"
    /\ sim_time = MaxQuietTime + 3
    /\ projectiles = <<>>
    /\ ships[1].current_target_id = "bravo_proj_1"
    /\ ~ships[1].autopilot.enabled
    /\ ships[1].autopilot.mode = "manual"
    /\ ships[1].controls.thrust_vector[3] = 800

\* C22: a failure while processing one ship in a tick (the autopilot pass
\* raising on malformed autopilot params accepted by set_autopilot_mode) does
\* not stop the tick loop: the other ships and the projectiles are still
\* processed in that tick and later ticks still run.
C22_LoopSurvivesEntityFailure ==
    /\ [][last'.op = "tick" =>
            /\ projectiles' = update_projectiles(projectiles)
            /\ \A j \in DOMAIN ships :
                  ~ships[j].autopilot.enabled => ships'[j] = update_ship_kinematics(ships[j])]_vars
    /\ [](running => loop_alive)

\* C23: set_helm_input for an existing ship never rejects malformed control
\* input: a thrust value that is not a list, has fewer or more than 3
\* components, or has a non-numeric component, and a rotation value that is
\* non-numeric or of the wrong shape, are coerced to safe defaults and the
\* call succeeds with well-formed stored controls.
C23_MalformedHelmCoerced ==
    last.op = "set_helm_input" /\ ~NoSuchShip(last.ship_id) =>
        /\ "controls" \in DOMAIN last.reply
        /\ LET c == ships[FindShip(ships, last.ship_id)].controls
           IN /\ c.thrust_vector = last.reply.controls.thrust_vector
              /\ Len(c.thrust_vector) = 3
              /\ \A j \in 1..3 : -1000 <= c.thrust_vector[j] /\ c.thrust_vector[j] <= 1000
              /\ c.rotation_deg_s = last.reply.controls.rotation_deg_s

(***************************************************************************)
(* stop() against the loop.  The loop thread tests _running at the top of  *)
(* each pass and then runs the body; stop() and the other commands of a    *)
(* client fall between the two.  requests[LoopThread] is the loop thread:  *)
(* pc "idle" at the top of the loop, "body" past the test, "done" once the *)
(* thread has ended.                                                       *)
(***************************************************************************)
MaxStopTime == 3
MaxStopCalls == 2

LoopThread == 2

LoopAt(pc) == requests[LoopThread].pc = pc

\* while self._running: at the top of the loop
LoopTest ==
    /\ LoopAt("idle")
    /\ loop_alive
    /\ sim_time < MaxStopTime
    /\ IF running
       THEN /\ requests' = [requests EXCEPT ![LoopThread].pc = "body"]
            /\ UNCHANGED loop_alive
       ELSE /\ requests' = [requests EXCEPT ![LoopThread].pc = "done"]
            /\ loop_alive' = FALSE
    /\ UNCHANGED <<sim_time, ships, projectiles, next_projectile_id, sensors, running,
                   last, calls>>

\* the body of the pass; a pass that raises ends the thread
LoopRun ==
    /\ LoopAt("body")
    /\ LoopBody
    /\ requests' = [requests EXCEPT ![LoopThread].pc = IF loop_alive' THEN "idle" ELSE "done"]
    /\ UNCHANGED calls

StopCall(A) == calls < MaxStopCalls /\ A /\ calls' = calls + 1 /\ UNCHANGED requests

NextStop ==
    \/ LoopTest
    \/ LoopRun
    \/ Free(Stop)
    \/ \E t \in TargetInputs : StopCall(SetTarget("alpha", t))
    \/ \E ps \in ChaseParams :
          StopCall(SetAutopilotMode("alpha", TRUE, StrV("chase_target"), ps))

SpecStop == Init /\ [][NextStop]_vars

\* C24: after stop() is called the tick loop terminates: at most the tick in
\* flight completes, no new tick starts afterwards, and sim_time stops
\* advancing; before stop() is called the loop never ends on its own and
\* sim_time increases by exactly dt on every tick.
C24_LoopRunsUntilStopped ==
    /\ [][/\ ~running /\ ~LoopAt("body") => sim_time' = sim_time
          /\ sim_time' # sim_time => sim_time' = sim_time + DT
          /\ ~running => ~running']_vars
    /\ [](running => loop_alive)

\* once stop() has been called at most the pass in flight completes, and
\* every pass advances sim_time by exactly dt
StopEndsTicks ==
    [][/\ ~running /\ ~LoopAt("body") => sim_time' = sim_time
       /\ sim_time' # sim_time => sim_time' = sim_time + DT
       /\ ~running => ~running']_vars

\* stop() was called during a pass, which completed, and the loop has ended
StopInFlight ==
    /\ ~running
    /\ ~loop_alive
    /\ LoopAt("done")
    /\ last.op = "tick"

(***************************************************************************)
(* The event log and its readers: the SensorsManager emits events while a  *)
(* consumer polls get_events_since with the largest id it has received and *)
(* another caller asks for the events after any id.                        *)
(***************************************************************************)
MaxPollTime == 1

\* the largest id the consumer has received, 0 before the first
LastSeen(t) ==
    IF requests[t].returned = <<>> THEN 0
    ELSE requests[t].returned[Len(requests[t].returned)].id

Unread ==
    UNCHANGED <<sim_time, ships, projectiles, next_projectile_id, sensors, running,
                loop_alive, calls>>

\* the consumer's poll: what it receives is added to what it has
Poll(t) ==
    /\ LET got == get_events_since(sensors, LastSeen(t))
       IN /\ requests' = [requests EXCEPT ![t].returned = @ \o got]
          /\ last' = [op |-> "poll", since |-> LastSeen(t), got |-> Len(got)]
    /\ Unread

GetEventsSince(k) ==
    /\ last' = [op |-> "get_events_since", since |-> k,
                reply |-> get_events_since(sensors, k)]
    /\ requests' = requests
    /\ Unread

\* the controller's accessor: since_time is a time or None
get_events(SM, since_time) == [events |-> get_events_since(SM, 0)]

\* since_time arguments: None, the start, the time after one clock step
SinceTimes == {NoneV, Num(0), Num(ClockStep)}

GetEvents(since_time) ==
    /\ last' = [op |-> "get_events", since_time |-> since_time,
                reply |-> get_events(sensors, since_time)]
    /\ requests' = requests
    /\ Unread

PollElapse ==
    /\ sim_time < MaxPollTime * ClockStep
    /\ Elapse

NextPoll ==
    \/ Free(PollElapse)
    \/ Free(UpdatePassive(1))
    \/ Free(ActivePing(2, "standard"))
    \/ Free(AdvanceTime)
    \/ Poll(1)
    \/ \E k \in 0..(MaxEvents + 1) : GetEventsSince(k)
    \/ \E since_time \in SinceTimes : GetEvents(since_time)

SpecPoll == InitSensors /\ [][NextPoll]_vars

Ascending(evs) == \A i, j \in DOMAIN evs : i < j => evs[i].id < evs[j].id

\* C25: get_events_since(k) returns exactly the logged events with id > k,
\* in ascending id order, and changes nothing; hence a consumer that
\* repeatedly polls with the largest id it has received gets every event
\* exactly once, with none skipped and none repeated, however its polls are
\* placed between event emissions.
C25_PollingDeliversEachEventOnce ==
    /\ [](last.op = "get_events_since" =>
            /\ Ascending(last.reply)
            /\ \A i \in DOMAIN last.reply :
                  last.reply[i].id > last.since
                  /\ \E j \in DOMAIN sensors.events : sensors.events[j] = last.reply[i]
            /\ \A j \in DOMAIN sensors.events :
                  sensors.events[j].id > last.since =>
                      Cardinality({i \in DOMAIN last.reply : last.reply[i] = sensors.events[j]}) = 1)
    /\ [](requests[1].returned = SubSeq(sensors.events, 1, Len(requests[1].returned)))
    /\ [][last'.op \in {"poll", "get_events_since"} /\ last' # last =>
             /\ sensors' = sensors
             /\ ships' = ships
             /\ projectiles' = projectiles
             /\ sim_time' = sim_time
             /\ last'.op = "poll" => requests'[1].returned = sensors.events]_vars

\* a poll has brought new events to a consumer that had received some before
C25_Witness ==
    /\ last.op = "poll"
    /\ last.since >= 1
    /\ last.got >= 1
    /\ Len(requests[1].returned) = last.since + last.got

\* C26: the events accessor the controller exposes to the request layer
\* (get_events called with a since argument) returns only the events newer
\* than the position the caller supplied, not events the caller already
\* received, and is read-only: it changes no simulation or sensor state.
C26_GetEventsOnlyNewer ==
    /\ [](last.op = "get_events" /\ last.since_time # NoneV =>
            \A i \in DOMAIN last.reply.events :
                last.reply.events[i].time > last.since_time.n)
    /\ [][last'.op = "get_events" =>
             /\ sensors' = sensors
             /\ ships' = ships
             /\ projectiles' = projectiles
             /\ sim_time' = sim_time]_vars

\* get_events changes no simulation or sensor state and returns the whole
\* log, whatever since_time is
GetEventsReturnsWholeLog ==
    /\ [](last.op = "get_events" => last.reply.events = sensors.events)
    /\ [][last'.op = "get_events" =>
             /\ sensors' = sensors
             /\ ships' = ships
             /\ projectiles' = projectiles
             /\ sim_time' = sim_time]_vars

(***************************************************************************)
(* set_helm_input against the integration of the same ship.  Neither       *)
(* thread takes a lock, so they interleave between statements.  The ship's *)
(* "controls" entry refers to a dict object: update_ship_kinematics reads  *)
(* thrust_vector and rotation_deg_s from it at two points and ends by      *)
(* binding the entry to a new dict, while set_helm_input fetches the dict  *)
(* once and then stores its two values into it.  A dict is named by the    *)
(* number of the pass that created it.                                     *)
(***************************************************************************)
MaxRaceTime == 2

RaceFleet == <<InstantiateShip(BravoCfg)>>

\* helm input a client sends: forward throttle and yaw rate
RaceInputs == {<<500, 3000>>, <<1000, -2000>>}

InitRace ==
    /\ sim_time = 0
    /\ ships = RaceFleet
    /\ projectiles = <<>>
    /\ next_projectile_id = 1
    /\ sensors = SensorsInit
    /\ running = TRUE
    /\ loop_alive = TRUE
    /\ last = [op |-> "init"]
    /\ calls = 0
    /\ requests = [t \in Threads |->
                      IF t = LoopThread
                      THEN [pc |-> "idle", returned |-> <<>>, passes |-> 0,
                            thrust_vec |-> <<>>, rotation_ctrl |-> <<>>]
                      ELSE [pc |-> "idle", returned |-> <<>>, dict |-> 0, controls |-> <<>>]]

RaceFrame == UNCHANGED <<projectiles, next_projectile_id, sensors, running, loop_alive, calls>>

\* the pass begins: sim_time += dt, an autopilot pass over ships with the
\* autopilot off, and update_ship_kinematics reads controls["thrust_vector"]
KinematicsReadThrust ==
    /\ LoopAt("idle")
    /\ running
    /\ sim_time < MaxRaceTime
    /\ sim_time' = sim_time + DT
    /\ requests' = [requests EXCEPT ![LoopThread].pc = "thrust_read",
                                    ![LoopThread].thrust_vec = ships[1].controls.thrust_vector]
    /\ last' = last
    /\ UNCHANGED ships
    /\ RaceFrame

\* update_ship_kinematics reads controls["rotation_deg_s"]
KinematicsReadRotation ==
    /\ LoopAt("thrust_read")
    /\ requests' = [requests EXCEPT ![LoopThread].pc = "rotation_read",
                                    ![LoopThread].rotation_ctrl = ships[1].controls.rotation_deg_s]
    /\ UNCHANGED <<sim_time, ships, last>>
    /\ RaceFrame

\* update_ship_kinematics integrates with what it read and binds the ship's
\* controls to a new dict of those values; the pass has no more to do
KinematicsWriteBack ==
    /\ LoopAt("rotation_read")
    /\ LET used == [thrust_vector |-> requests[LoopThread].thrust_vec,
                    rotation_deg_s |-> requests[LoopThread].rotation_ctrl,
                    mode |-> NoMode]
       IN /\ ships' = <<update_ship_kinematics([ships[1] EXCEPT !.controls = used])>>
          /\ requests' = [requests EXCEPT ![LoopThread].pc = "idle",
                                          ![LoopThread].passes = @ + 1,
                                          ![LoopThread].returned = Append(@, used)]
    /\ last' = [op |-> "tick"]
    /\ UNCHANGED sim_time
    /\ RaceFrame

\* set_helm_input up to controls = ship.setdefault("controls", {})
HelmFetchDict(t, input) ==
    /\ requests[t].pc = "idle"
    /\ requests[t].returned = <<>>
    /\ LET r == set_helm_input(ships, "bravo", ListV(<<Num(0), Num(0), Num(input[1])>>),
                               Num(input[2]), NoMode)
       IN requests' = [requests EXCEPT ![t].pc = "dict_fetched",
                                       ![t].dict = requests[LoopThread].passes,
                                       ![t].controls = r.reply.controls]
    /\ UNCHANGED <<sim_time, ships, last>>
    /\ RaceFrame

\* the dict a request thread holds is the one the ship's entry refers to
HoldsLiveDict(t) == requests[t].dict = requests[LoopThread].passes

\* controls["thrust_vector"] = thrust
HelmStoreThrust(t) ==
    /\ requests[t].pc = "dict_fetched"
    /\ ships' = IF HoldsLiveDict(t)
                THEN [ships EXCEPT ![1].controls.thrust_vector = requests[t].controls.thrust_vector]
                ELSE ships
    /\ requests' = [requests EXCEPT ![t].pc = "thrust_stored"]
    /\ UNCHANGED <<sim_time, last>>
    /\ RaceFrame

\* controls["rotation_deg_s"] = {...} and the return of the dict
HelmStoreRotation(t) ==
    /\ requests[t].pc = "thrust_stored"
    /\ ships' = IF HoldsLiveDict(t)
                THEN [ships EXCEPT ![1].controls.rotation_deg_s = requests[t].controls.rotation_deg_s]
                ELSE ships
    /\ requests' = [requests EXCEPT ![t].pc = "done",
                                    ![t].returned = <<requests[t].controls>>]
    /\ last' = [op |-> "set_helm_input", ship_id |-> "bravo",
                reply |-> [ship_id |-> "bravo", controls |-> requests[t].controls]]
    /\ UNCHANGED sim_time
    /\ RaceFrame

NextRace ==
    \/ KinematicsReadThrust
    \/ KinematicsReadRotation
    \/ KinematicsWriteBack
    \/ \E input \in RaceInputs : HelmFetchDict(1, input)
    \/ HelmStoreThrust(1)
    \/ HelmStoreRotation(1)

SpecRace == InitRace /\ [][NextRace]_vars

\* the helm input a pass integrated with is one the ship's controls held as a
\* whole: the input from before the command or the command's
UsedWhole(used) ==
    \/ /\ used.thrust_vector = RaceFleet[1].controls.thrust_vector
       /\ used.rotation_deg_s = RaceFleet[1].controls.rotation_deg_s
    \/ /\ requests[1].controls # <<>>
       /\ used.thrust_vector = requests[1].controls.thrust_vector
       /\ used.rotation_deg_s = requests[1].controls.rotation_deg_s

\* C27: a set_helm_input command that returns success while the tick thread
\* is integrating the same ship is never lost or half-applied: for every
\* interleaving of the request thread with the tick thread (autopilot
\* disabled), once both have finished the ship's stored thrust vector and
\* rotation rates are those of the command, and the integration used either
\* entirely the old or entirely the new helm input.
C27_HelmInputNeverLost ==
    /\ requests[1].pc = "done" /\ LoopAt("idle") =>
          /\ ships[1].controls.thrust_vector = requests[1].returned[1].thrust_vector
          /\ ships[1].controls.rotation_deg_s = requests[1].returned[1].rotation_deg_s
    /\ \A k \in DOMAIN requests[LoopThread].returned :
          UsedWhole(requests[LoopThread].returned[k])


(***************************************************************************)
(* fire_weapon on a request thread against update_projectiles on the loop  *)
(* thread.  update_projectiles walks the list by index, collects the       *)
(* survivors in a local list and ends with projectiles[:] = survivors;     *)
(* fire_weapon appends to the same list.  Nothing takes a lock.  The       *)
(* controller is taken late in a quiet run: one torpedo fired at time 0    *)
(* has MaxSalvoTicks - 1 ticks of ttl left.                                *)
(***************************************************************************)
MaxSalvoTicks == 3
MaxSalvoShots == 2

InitSalvo ==
    LET shot == fire_weapon(RaceFleet, <<>>, 1, "bravo", "tube_1")
        quiet == ProjectileTtl - (MaxSalvoTicks - 1) * DT
    IN /\ sim_time = quiet
       /\ ships = RaceFleet
       /\ projectiles = <<Coasted(shot.projectiles[1], quiet)>>
       /\ next_projectile_id = shot.next_id
       /\ sensors = SensorsInit
       /\ running = TRUE
       /\ loop_alive = TRUE
       /\ last = [op |-> "tick"]
       /\ calls = 0
       /\ requests = [t \in Threads |->
                         IF t = LoopThread
                         THEN [pc |-> "idle", returned |-> <<>>, index |-> 1,
                               survivors |-> <<>>, dropped |-> {}]
                         ELSE [pc |-> "idle", returned |-> <<shot.reply.projectile_id>>]]

\* _loop up to the for statement of update_projectiles: the clock, the
\* autopilot pass and the ships' kinematics
ProjectilesBegin ==
    /\ LoopAt("idle")
    /\ running
    /\ loop_alive
    /\ sim_time < ProjectileTtl + DT
    /\ LET ap == _apply_autopilot(ships, projectiles)
       IN /\ ap.ok
          /\ ships' = [k \in DOMAIN ap.ships |-> update_ship_kinematics(ap.ships[k])]
    /\ sim_time' = sim_time + DT
    /\ requests' = [requests EXCEPT ![LoopThread].pc = "iterate",
                                    ![LoopThread].index = 1,
                                    ![LoopThread].survivors = <<>>]
    /\ UNCHANGED <<projectiles, next_projectile_id, sensors, running, loop_alive, last,
                   calls>>

\* one turn of "for p in projectiles": the element at the iterator's index,
\* as the list is now, is integrated in place and kept, or skipped
ProjectilesIterate ==
    /\ LoopAt("iterate")
    /\ requests[LoopThread].index <= Len(projectiles)
    /\ LET k == requests[LoopThread].index
           p1 == StepProjectile(projectiles[k])
       IN IF ProjectileSurvives(p1)
          THEN /\ projectiles' = [projectiles EXCEPT ![k] = p1]
               /\ requests' = [requests EXCEPT
                                  ![LoopThread].index = k + 1,
                                  ![LoopThread].survivors = Append(@, p1)]
          ELSE /\ UNCHANGED projectiles
               /\ requests' = [requests EXCEPT
                                  ![LoopThread].index = k + 1,
                                  ![LoopThread].dropped = @ \cup {projectiles[k].id}]
    /\ UNCHANGED <<sim_time, ships, next_projectile_id, sensors, running, loop_alive, last,
                   calls>>

\* the iterator finds its index past the end of the list: the for statement
\* is over
ProjectilesExhausted ==
    /\ LoopAt("iterate")
    /\ requests[LoopThread].index > Len(projectiles)
    /\ requests' = [requests EXCEPT ![LoopThread].pc = "assign"]
    /\ UNCHANGED <<sim_time, ships, projectiles, next_projectile_id, sensors, running,
                   loop_alive, last, calls>>

\* projectiles[:] = survivors, then the sensor pass that ends the loop body
ProjectilesAssign ==
    /\ LoopAt("assign")
    /\ projectiles' = requests[LoopThread].survivors
    /\ sensors' = _update_sensors(sensors, sim_time, ships, projectiles')
    /\ requests' = [requests EXCEPT ![LoopThread].pc = "idle"]
    /\ last' = [op |-> "tick"]
    /\ UNCHANGED <<sim_time, ships, next_projectile_id, running, loop_alive, calls>>

\* fire_weapon on a request thread; the client keeps the id it was given
SalvoFire(t, ship_id) ==
    /\ t # LoopThread
    /\ calls < MaxSalvoShots
    /\ calls' = calls + 1
    /\ FireWeapon(ship_id, "tube_1")
    /\ requests' = [requests EXCEPT ![t].returned =
                       IF "projectile_id" \in DOMAIN last'.reply
                       THEN Append(@, last'.reply.projectile_id)
                       ELSE @]

NextSalvo ==
    \/ ProjectilesBegin
    \/ ProjectilesIterate
    \/ ProjectilesExhausted
    \/ ProjectilesAssign
    \/ \E ship_id \in {"bravo", "nobody"} : SalvoFire(1, ship_id)

SpecSalvo == InitSalvo /\ [][NextSalvo]_vars

\* the ids fire_weapon has returned to the client
SalvoReturned == {requests[1].returned[j] : j \in DOMAIN requests[1].returned}

\* C28: every projectile whose id fire_weapon returned is in the projectile
\* list, unless a tick has removed it for ttl <= 0 or for exceeding the range
\* bound, whatever the interleaving of fire_weapon with the loop thread's
\* projectile update.
C28_SpawnedProjectileNeverDiscarded ==
    \A id \in SalvoReturned :
        \/ \E j \in DOMAIN projectiles : projectiles[j].id = id
        \/ id \in requests[LoopThread].dropped

\* the only projectile the ticks drop is the one whose ttl ran out
SalvoOnlyExpiredDropped ==
    requests[LoopThread].dropped \subseteq {ProjectileId("bravo", 1)}

\* a tick has dropped the old torpedo and a later one is in flight
SalvoInFlight ==
    /\ requests[LoopThread].dropped # {}
    /\ Len(requests[1].returned) > 1
    /\ LoopAt("idle")
    /\ C28_SpawnedProjectileNeverDiscarded

(***************************************************************************)
(* ping_sensors on a request thread against the loop thread's sensor pass. *)
(* Both go through SensorsManager._emit, _update_contact and the contact   *)
(* maps, and nothing takes a lock.  _emit is taken statement by statement  *)
(* (the read of the counter for the id, the load and the store of += 1,    *)
(* the append), advance_time test by test and deletion by deletion;        *)
(* _update_contact changes the contact map in one step.  The controller is *)
(* taken DropAfter into a quiet run: bravo pinged once after the first     *)
(* tick, so that its contact is one tick short of the drop age.            *)
(***************************************************************************)
MaxPingTicks == 1
MaxPings == 1

PingFleet == <<InstantiateShip(SensorAlphaCfg), InstantiateShip(SensorBravoCfg)>>

\* an event before _emit has given it an id
SensorEvent(time_s, type_, sensor_ship_id, target_entity_id, data) ==
    [id |-> 0, time |-> time_s, type |-> type_, sensor_ship_id |-> sensor_ship_id,
     target_entity_id |-> target_entity_id, data |-> data]

\* the manager after the sensor passes of the ticks from .. to of a quiet
\* run that ends before bravo's contact reaches the drop age: each pass emits
\* alpha's contact_updated for bravo, and bravo's contact goes stale with age
QuietSensors(SM, from, to) ==
    LET n == (to - from) \div DT + 1
        seen == DictGet(DictGet(SM.contacts, "alpha"), ContactId("alpha", "bravo"))
        pinged == DictGet(DictGet(SM.contacts, "bravo"), ContactId("bravo", "alpha"))
    IN [SM EXCEPT
           !.events = @ \o [k \in 1..n |->
                               [SensorEvent(from + (k - 1) * DT, "contact_updated", "alpha",
                                            "bravo", NoData)
                                   EXCEPT !.id = SM.next_event_id + k - 1]],
           !.next_event_id = @ + n,
           !.contacts =
               DictPut(DictPut(@, "alpha",
                               DictPut(DictGet(@, "alpha"), ContactId("alpha", "bravo"),
                                       [seen EXCEPT !.last_seen_time = to])),
                       "bravo",
                       DictPut(DictGet(@, "bravo"), ContactId("bravo", "alpha"),
                               [pinged EXCEPT
                                   !.stale = to - pinged.last_seen_time >= StaleAfter]))]

\* the locals of a thread inside the sensor code
PingFrame ==
    [pc |-> "idle", returned |-> <<>>, kind |-> "none", ship |-> 0, k |-> 0, now |-> 0,
     ev |-> SensorEvent(0, "none", NoneId, NoneId, NoData), n |-> 0, after |-> "idle",
     snapshot |-> <<>>, s |-> 0, items |-> <<>>, c |-> 0]

\* the sensor pass is followed from two states: the program's initial state,
\* and the first pass after a quiet run that has aged bravo's contact to the
\* drop age
PingStarts == {0, DropAfter}

InitPing ==
    LET first == _update_sensors(SensorsInit, DT, PingFleet, <<>>)
        pinged == execute_active_ping(first, DT, PingFleet[2], PingFleet, "standard")
    IN /\ sim_time \in PingStarts
       /\ ships = PingFleet
       /\ projectiles = <<>>
       /\ next_projectile_id = 1
       /\ sensors = IF sim_time = 0 THEN SensorsInit
                    ELSE QuietSensors(pinged, 2 * DT, DropAfter)
       /\ running = TRUE
       /\ loop_alive = TRUE
       /\ last = IF sim_time = 0 THEN [op |-> "init"] ELSE [op |-> "tick"]
       /\ calls = 0
       /\ requests = [t \in Threads |-> PingFrame]

PingFrameUnchanged ==
    UNCHANGED <<sim_time, ships, projectiles, next_projectile_id, running, loop_alive, calls>>

\* thread t goes into _emit with event ev and comes out at pc after
EnterEmit(t, ev, after) ==
    [requests EXCEPT ![t].pc = "emit_id", ![t].ev = ev, ![t].after = after]

\* _emit: ev = SensorEvent(id=self._next_event_id, ...)
EmitId(t) ==
    /\ requests[t].pc = "emit_id"
    /\ requests' = [requests EXCEPT ![t].pc = "emit_load",
                                    ![t].ev.id = sensors.next_event_id]
    /\ UNCHANGED <<sensors, last>>
    /\ PingFrameUnchanged

\* _emit: self._next_event_id += 1, the read of the field
EmitLoad(t) ==
    /\ requests[t].pc = "emit_load"
    /\ requests' = [requests EXCEPT ![t].pc = "emit_store", ![t].n = sensors.next_event_id]
    /\ UNCHANGED <<sensors, last>>
    /\ PingFrameUnchanged

\* _emit: self._next_event_id += 1, the write of the sum
EmitStore(t) ==
    /\ requests[t].pc = "emit_store"
    /\ sensors' = [sensors EXCEPT !.next_event_id = requests[t].n + 1]
    /\ requests' = [requests EXCEPT ![t].pc = "emit_append"]
    /\ UNCHANGED last
    /\ PingFrameUnchanged

\* _emit: self.events.append(ev)
EmitAppend(t) ==
    /\ requests[t].pc = "emit_append"
    /\ sensors' = [sensors EXCEPT !.events = Append(@, requests[t].ev)]
    /\ requests' = [requests EXCEPT ![t].pc = requests[t].after,
                                    ![t].ev = PingFrame.ev, ![t].n = 0,
                                    ![t].after = "idle"]
    /\ UNCHANGED last
    /\ PingFrameUnchanged

\* ping_sensors and execute_active_ping up to their first _emit
PingBegin(t, ship_id, mode) ==
    /\ t # LoopThread
    /\ requests[t].pc = "idle"
    /\ calls < MaxPings
    /\ calls' = calls + 1
    /\ LET i == FindShip(ships, ship_id)
           refused(reason) ==
               EnterEmit(t, SensorEvent(sim_time, "sensor_ping", ship_id, NoneId,
                                        [performed |-> FALSE, reason |-> reason]),
                         "ping_return")
       IN IF i = 0
          THEN /\ last' = [op |-> "ping_sensors", ship_id |-> ship_id,
                           reply |-> [error |-> "unknown_ship", ship_id |-> ship_id,
                                      mode |-> mode]]
               /\ UNCHANGED <<sensors, requests>>
          ELSE /\ UNCHANGED last
               /\ IF Get(ships[i].active, "range_km", 0) <= 0
                  THEN /\ requests' = [refused("no_active") EXCEPT
                                          ![t].ship = i, ![t].now = sim_time]
                       /\ UNCHANGED sensors
                  ELSE IF PingCoolingDown(sensors, sim_time, ships[i])
                  THEN /\ requests' = [refused("cooldown") EXCEPT
                                          ![t].ship = i, ![t].now = sim_time]
                       /\ UNCHANGED sensors
                  ELSE /\ sensors' = [sensors EXCEPT
                                         !.last_ping_time = (ship_id :> sim_time) @@ @]
                       /\ requests' =
                              [EnterEmit(t, SensorEvent(sim_time, "sensor_ping", ship_id,
                                                        NoneId,
                                                        [performed |-> TRUE, mode |-> mode]),
                                         "detect")
                                  EXCEPT ![t].ship = i, ![t].now = sim_time,
                                         ![t].kind = "active", ![t].k = 1]
    /\ UNCHANGED <<sim_time, ships, projectiles, next_projectile_id, running, loop_alive>>

\* one turn of "for ent in entities" of execute_active_ping or of
\* update_passive_for_ship: the entity is skipped, or _update_contact
\* changes the contact map and goes into _emit; past the last entity the
\* method returns
DetectStep(t) ==
    /\ requests[t].pc = "detect"
    /\ LET f == requests[t]
           ship == ships[f.ship]
           entities == ships \o projectiles
           SM1 == IF f.kind = "active"
                  THEN DetectEntity(sensors, f.now, ship, entities[f.k],
                                    Get(ship.active, "range_km", 0),
                                    Get(ship.active, "fov_deg", DefaultActiveFov),
                                    ActiveSensitivity, "active")
                  ELSE DetectEntity(sensors, f.now, ship, entities[f.k],
                                    Get(ship.passive, "range_km", 0),
                                    Get(ship.passive, "fov_deg", 360000),
                                    Get(ship.passive, "sensitivity", 1000), "passive")
       IN IF f.k > Len(entities)
          THEN /\ requests' = [requests EXCEPT
                                  ![t].pc = IF f.kind = "active" THEN "ping_return"
                                            ELSE "passive",
                                  ![t].ship = IF f.kind = "active" THEN @ ELSE @ + 1,
                                  ![t].k = 0]
               /\ UNCHANGED sensors
          ELSE IF SM1 = sensors
          THEN /\ requests' = [requests EXCEPT ![t].k = f.k + 1]
               /\ UNCHANGED sensors
          ELSE /\ sensors' = [sensors EXCEPT !.contacts = SM1.contacts]
               /\ requests' = [EnterEmit(t, [SM1.events[Len(SM1.events)] EXCEPT !.id = 0],
                                         "detect")
                                  EXCEPT ![t].k = f.k + 1]
    /\ UNCHANGED last
    /\ PingFrameUnchanged

\* return self.get_contacts_for_ship(ship_id), and ping_sensors' reply
PingReturn(t) ==
    /\ requests[t].pc = "ping_return"
    /\ LET ship_id == ships[requests[t].ship].id
           contacts == get_contacts_for_ship(sensors, ship_id)
       IN /\ last' = [op |-> "ping_sensors", ship_id |-> ship_id,
                      reply |-> [ship_id |-> ship_id, contacts |-> contacts]]
          /\ requests' = [requests EXCEPT
                             ![t] = [PingFrame EXCEPT
                                        !.returned = Append(requests[t].returned, contacts)]]
    /\ UNCHANGED sensors
    /\ PingFrameUnchanged

\* _loop up to the first ship of _update_sensors: the clock, the autopilot
\* pass and update_world
SensorPassBegin ==
    /\ LoopAt("idle")
    /\ running
    /\ loop_alive
    /\ \E start \in PingStarts : sim_time >= start /\ sim_time < start + MaxPingTicks * DT
    /\ LET ap == _apply_autopilot(ships, projectiles)
           w == update_world(ap.ships, projectiles)
       IN /\ ap.ok
          /\ ships' = w.ships
          /\ projectiles' = w.projectiles
    /\ sim_time' = sim_time + DT
    /\ requests' = [requests EXCEPT ![LoopThread].pc = "passive", ![LoopThread].ship = 1,
                                    ![LoopThread].kind = "passive"]
    /\ UNCHANGED <<next_projectile_id, sensors, running, loop_alive, last, calls>>

\* for ship in self.ships: update_passive_for_ship up to its loop; after the
\* last ship, advance_time takes list(self.contacts.items())
PassiveNext ==
    /\ LoopAt("passive")
    /\ LET i == requests[LoopThread].ship
       IN requests' =
              IF i > Len(ships)
              THEN [requests EXCEPT ![LoopThread].pc = "advance_sensor",
                                    ![LoopThread].snapshot = sensors.contacts,
                                    ![LoopThread].s = 1]
              ELSE IF Get(ships[i].passive, "range_km", 0) <= 0
              THEN [requests EXCEPT ![LoopThread].ship = i + 1]
              ELSE [requests EXCEPT ![LoopThread].pc = "detect", ![LoopThread].k = 1,
                                    ![LoopThread].now = sim_time]
    /\ UNCHANGED <<sensors, last>>
    /\ PingFrameUnchanged

\* advance_time: the next sensor_id, contacts of the outer loop and
\* list(contacts.items()), or the end of the pass
AdvanceSensor ==
    /\ LoopAt("advance_sensor")
    /\ LET f == requests[LoopThread]
       IN IF f.s > Len(f.snapshot)
          THEN /\ requests' = [requests EXCEPT ![LoopThread] = PingFrame]
               /\ last' = [op |-> "tick"]
          ELSE /\ requests' = [requests EXCEPT
                                  ![LoopThread].pc = "advance_contact",
                                  ![LoopThread].items =
                                      DictGet(sensors.contacts, f.snapshot[f.s].key),
                                  ![LoopThread].c = 1]
               /\ UNCHANGED last
    /\ UNCHANGED sensors
    /\ PingFrameUnchanged

\* advance_time: one turn of the inner loop up to _emit: the age of the
\* contact object as it is now, and the stale flag
AdvanceContact ==
    /\ LoopAt("advance_contact")
    /\ LET f == requests[LoopThread]
           sensor_id == f.snapshot[f.s].key
           mine == DictGet(sensors.contacts, sensor_id)
           target_id == f.items[f.c].key
           c == DictGet(mine, target_id)
           fate == ContactFate(c, sim_time)
       IN IF f.c > Len(f.items)
          THEN /\ requests' = [requests EXCEPT ![LoopThread].pc = "advance_prune"]
               /\ UNCHANGED sensors
          ELSE IF fate = "drop"
          THEN /\ requests' = EnterEmit(LoopThread,
                                        SensorEvent(sim_time, "contact_lost", sensor_id,
                                                    target_id, NoData),
                                        "advance_del")
               /\ UNCHANGED sensors
          ELSE /\ requests' = [requests EXCEPT ![LoopThread].c = f.c + 1]
               /\ sensors' = IF fate = "stale"
                             THEN [sensors EXCEPT !.contacts =
                                      DictPut(@, sensor_id,
                                              DictPut(mine, target_id,
                                                      [c EXCEPT !.stale = TRUE]))]
                             ELSE sensors
    /\ UNCHANGED last
    /\ PingFrameUnchanged

\* advance_time: del contacts[target_id]
AdvanceDel ==
    /\ LoopAt("advance_del")
    /\ LET f == requests[LoopThread]
           sensor_id == f.snapshot[f.s].key
       IN sensors' = [sensors EXCEPT !.contacts =
                         DictPut(@, sensor_id,
                                 DictDel(DictGet(sensors.contacts, sensor_id),
                                         f.items[f.c].key))]
    /\ requests' = [requests EXCEPT ![LoopThread].pc = "advance_contact",
                                    ![LoopThread].c = @ + 1]
    /\ UNCHANGED last
    /\ PingFrameUnchanged

\* advance_time: if not contacts
AdvancePruneTest ==
    /\ LoopAt("advance_prune")
    /\ LET f == requests[LoopThread]
       IN requests' =
              IF DictGet(sensors.contacts, f.snapshot[f.s].key) = <<>>
              THEN [requests EXCEPT ![LoopThread].pc = "advance_prune_del"]
              ELSE [requests EXCEPT ![LoopThread].pc = "advance_sensor",
                                    ![LoopThread].s = @ + 1]
    /\ UNCHANGED <<sensors, last>>
    /\ PingFrameUnchanged

\* advance_time: del self.contacts[sensor_id]
AdvancePruneDel ==
    /\ LoopAt("advance_prune_del")
    /\ LET f == requests[LoopThread]
       IN sensors' = [sensors EXCEPT !.contacts = DictDel(@, f.snapshot[f.s].key)]
    /\ requests' = [requests EXCEPT ![LoopThread].pc = "advance_sensor",
                                    ![LoopThread].s = @ + 1]
    /\ UNCHANGED last
    /\ PingFrameUnchanged

NextPing ==
    \/ SensorPassBegin
    \/ PassiveNext
    \/ AdvanceSensor
    \/ AdvanceContact
    \/ AdvanceDel
    \/ AdvancePruneTest
    \/ AdvancePruneDel
    \/ \E ship_id \in {"alpha", "bravo", "nobody"} : PingBegin(1, ship_id, "standard")
    \/ PingReturn(1)
    \/ \E t \in Threads :
          \/ DetectStep(t)
          \/ EmitId(t)
          \/ EmitLoad(t)
          \/ EmitStore(t)
          \/ EmitAppend(t)

SpecPing == InitPing /\ [][NextPing]_vars

\* C29: with an active ping interleaved with the loop thread's sensor pass,
\* event ids are strictly increasing in log order, so that no two events of
\* the log share an id.
C29_EventIdsIncreasingUnderPing ==
    \A k \in 1..(Len(sensors.events) - 1) :
        sensors.events[k].id < sensors.events[k + 1].id


\* a contact_lost event of this tick for the contact tracked under key k
LostLogged(SM, k) ==
    \E j \in DOMAIN SM.events :
        /\ SM.events[j].type = "contact_lost"
        /\ SM.events[j].sensor_ship_id = k[1]
        /\ SM.events[j].target_entity_id = k[2]
        /\ SM.events[j].time = sim_time

\* C30: with an active ping interleaved with advance_time, a contact leaves
\* the contact set only when its age has reached the drop age, and with a
\* contact_lost event in the log: a contact the ping has just created or
\* refreshed is never removed.
C30_ContactLeavesOnlyByDrop ==
    [][\A k \in ContactKeys(sensors) \ ContactKeys(sensors') :
          /\ Age(ContactAt(sensors, k)) >= DropAfter
          /\ LostLogged(sensors', k)]_vars


(***************************************************************************)
(* The order of the passes of one tick.  A target closes on a ship with a  *)
(* passive sensor from just outside its range, so that the sensor pass of  *)
(* a tick sees it or not according to the positions it reads; the sensing  *)
(* ship takes helm and autopilot commands between ticks and fires.         *)
(***************************************************************************)
MaxOrderTime == 3
MaxOrderCalls == 2

OrderFleet ==
    <<InstantiateShip(AlphaCfg),
      InstantiateShip([BravoCfg EXCEPT !.position = <<9520000, 0, 0>>,
                                       !.velocity = <<-300000, 0, 0>>])>>

InitOrder == InitWith({OrderFleet})

OrderTick == sim_time < MaxOrderTime /\ LoopPass

OrderCall(A) == calls < MaxOrderCalls /\ A /\ calls' = calls + 1 /\ UNCHANGED requests

NextOrder ==
    \/ Free(OrderTick)
    \/ OrderCall(SetHelmInput("alpha", ListV(<<Num(0), Num(0), Num(500)>>), Num(3000)))
    \/ \E m \in {"coast", "kill_vel"} :
          OrderCall(SetAutopilotMode("alpha", TRUE, StrV(m), EmptyDict))
    \/ OrderCall(FireWeapon("alpha", "tube_1"))

SpecOrder == InitOrder /\ [][NextOrder]_vars

\* C31: every tick advances sim_time by dt, then runs the autopilot pass
\* over all ships, then integrates all ships and all projectiles with the
\* helm inputs that pass left, then runs passive detection for every ship
\* on the positions after the integration, then advance_time once.
C31_TickOrder ==
    [][last'.op = "tick" /\ sim_time' # sim_time =>
          LET ap == _apply_autopilot(ships, projectiles)
          IN /\ sim_time' = sim_time + DT
             /\ ships' = [k \in DOMAIN ships |-> update_ship_kinematics(ap.ships[k])]
             /\ projectiles' = update_projectiles(projectiles)
             /\ sensors' = advance_time(PassiveFrom(sensors, sim_time', ships',
                                                    ships' \o projectiles', 1),
                                        sim_time')]_vars

\* a tick has just brought the target into range: the pass has acquired it
\* at the range of its new position, and the sensing ship, under autopilot,
\* has been integrated with the autopilot's helm input
C31_Witness ==
    /\ last.op = "tick"
    /\ \E j \in DOMAIN sensors.events :
          /\ sensors.events[j].type = "contact_acquired"
          /\ sensors.events[j].target_entity_id = "bravo"
          /\ sensors.events[j].time = sim_time
    /\ ships[1].controls.mode # NoMode \/ ships[1].autopilot.enabled
    /\ projectiles # <<>>


(***************************************************************************)
(* The order of the steps inside update_ship_kinematics.                   *)
(***************************************************************************)
\* the main-drive acceleration of a ship whose forward axis points along yaw
ThrustAccelAlong(ship, yaw) ==
    LET forward_throttle == Clamp(ship.controls.thrust_vector[3], -1000, 1000)
        max_thrust_newton == Get(ship.physics, "max_main_thrust_newton", DefaultMaxThrust)
        accel_mag == (max_thrust_newton * forward_throttle) \div ship.mass_kg
        forward_world == yaw_deg_to_forward_vector(yaw)
    IN IF Abs(forward_throttle) > 1 /\ ship.mass_kg > 1
       THEN [j \in 1..3 |-> (forward_world[j] * accel_mag) \div 1000]
       ELSE <<0, 0, 0>>

\* the ship after a tick has the velocity its thrust gives along yaw, with
\* gravity, and the position that velocity gives
IntegratedAlong(before, after, yaw) ==
    /\ after.velocity = [j \in 1..3 |->
                            before.velocity[j]
                                + TimesDt(ThrustAccelAlong(before, yaw)[j] + GravAccel[j])]
    /\ after.position = [j \in 1..3 |-> before.position[j] + TimesDt(after.velocity[j])]

\* C32: in one integration step the orientation is advanced first and the
\* thrust acceleration is applied along the forward direction of the
\* orientation after that rotation; velocity is updated from the
\* acceleration and position from the updated velocity.
C32_ThrustAlongNewOrientation ==
    [][last'.op = "tick" /\ sim_time' # sim_time =>
          LET ap == _apply_autopilot(ships, projectiles)
          IN \A k \in DOMAIN ships :
                IntegratedAlong(ap.ships[k], ships'[k], ships'[k].orientation_deg)]_vars

\* the integrator of the tick applies the thrust along the heading the ship
\* had when the tick started, and turns the ship afterwards
ThrustAlongOldOrientation ==
    [][last'.op = "tick" /\ sim_time' # sim_time =>
          LET ap == _apply_autopilot(ships, projectiles)
          IN \A k \in DOMAIN ships :
                /\ IntegratedAlong(ap.ships[k], ships'[k], ap.ships[k].orientation_deg)
                /\ ships'[k].orientation_deg =
                       (ap.ships[k].orientation_deg
                           + TimesDt(ClampRate(ap.ships[k].controls.rotation_deg_s.yaw,
                                               MaxYawRate(ap.ships[k])))) % 360000]_vars


(***************************************************************************)
(* The integrator's own clamps, for controls stored by configuration       *)
(* (which are stored as configured) and by set_helm_input.                 *)
(***************************************************************************)
\* the signed turn from heading a to heading b, in [-180, 180) degrees
TurnBetween(a, b) == ((b - a + 180000) % 360000) - 180000

\* the largest main-drive acceleration of a ship
MaxMainAccel(ship) ==
    (Get(ship.physics, "max_main_thrust_newton", DefaultMaxThrust) * 1000) \div ship.mass_kg

\* the stored controls of a ship ask for more than the ship can do
ControlsBeyondCaps(ship) ==
    /\ Abs(ship.controls.rotation_deg_s.yaw) > MaxYawRate(ship)
    /\ Abs(ship.controls.thrust_vector[3]) > 1000

\* C33: whatever the stored controls, one tick never turns a ship by more
\* than its max yaw rate times dt and never changes its velocity by more
\* than max_main_thrust_newton / mass_kg times dt.
C33_IntegratorClampsControls ==
    [][last'.op = "tick" /\ sim_time' # sim_time =>
          \A k \in DOMAIN ships :
             /\ Abs(TurnBetween(ships[k].orientation_deg, ships'[k].orientation_deg))
                   <= TimesDt(MaxYawRate(ships[k]))
             /\ \A j \in 1..3 :
                   Abs(ships'[k].velocity[j] - ships[k].velocity[j])
                       <= TimesDt(MaxMainAccel(ships[k]))]_vars

\* a ship whose configured controls were beyond its caps has been turned and
\* accelerated by a tick, by exactly what the caps allow
C33_Witness ==
    /\ last.op = "tick"
    /\ \E fleet \in Fleets :
          \E k \in DOMAIN ships :
             /\ ControlsBeyondCaps(fleet[k])
             /\ sim_time = DT
             /\ TurnBetween(fleet[k].orientation_deg, ships[k].orientation_deg)
                   = TimesDt(MaxYawRate(fleet[k]))
             /\ ships[k].velocity[1] - fleet[k].velocity[1] = TimesDt(MaxMainAccel(fleet[k]))
             /\ ships[k].id = fleet[k].id


(***************************************************************************)
(* sim/physics_v2.py: the integrator that keeps orientation_euler_deg, and *)
(* a ship whose config carries that key next to orientation_deg.           *)
(* _instantiate_ships copies the config's keys, so the ship dict of the    *)
(* controller carries both.                                                *)
(***************************************************************************)
HasEuler(ship) == "orientation_euler_deg" \in DOMAIN ship

\* the ship with an orientation_euler_deg of its own and orientation_deg set
\* to its yaw
_ensure_orientation_euler(ship) ==
    LET euler == IF HasEuler(ship) THEN ship.orientation_euler_deg
                 ELSE [yaw |-> ship.orientation_deg, pitch |-> 0, roll |-> 0]
    IN [ship EXCEPT !.orientation_deg = euler.yaw] @@ [orientation_euler_deg |-> euler]

\* _get_physics_limits: the pitch and roll caps default to the yaw cap
_get_physics_limits(ship) ==
    LET max_yaw == Get(ship.physics, "max_rcs_yaw_deg_s", DefaultMaxYawRate)
    IN [max_main_thrust_newton |-> Get(ship.physics, "max_main_thrust_newton", DefaultMaxThrust),
        max_rcs_yaw_deg_s |-> max_yaw,
        max_rcs_pitch_deg_s |-> Get(ship.physics, "max_rcs_pitch_deg_s", max_yaw),
        max_rcs_roll_deg_s |-> Get(ship.physics, "max_rcs_roll_deg_s", max_yaw)]

MaxPitch == 89900

update_ship_physics(ship) ==
    LET s1 == _ensure_orientation_euler(ship)
        euler == s1.orientation_euler_deg
        rot_input == s1.controls.rotation_deg_s
        physics == _get_physics_limits(s1)
        yaw_rate == Clamp(rot_input.yaw, -physics.max_rcs_yaw_deg_s, physics.max_rcs_yaw_deg_s)
        pitch_rate == Clamp(rot_input.pitch, -physics.max_rcs_pitch_deg_s,
                            physics.max_rcs_pitch_deg_s)
        roll_rate == Clamp(rot_input.roll, -physics.max_rcs_roll_deg_s,
                           physics.max_rcs_roll_deg_s)
        euler1 == [yaw |-> (euler.yaw + TimesDt(yaw_rate)) % 360000,
                   pitch |-> Clamp(euler.pitch + TimesDt(pitch_rate), -MaxPitch, MaxPitch),
                   roll |-> (euler.roll + TimesDt(roll_rate)) % 360000]
        sfwd == s1.controls.thrust_vector[3]
        main_accel_m_s2 == (sfwd * physics.max_main_thrust_newton) \div s1.mass_kg
        main_accel_km_s2 == main_accel_m_s2 \div 1000
        \* the first column of Rz(yaw) * Ry(pitch) * Rx(roll)
        accel_world == <<(main_accel_km_s2 * CosMilli(euler1.yaw) * CosMilli(euler1.pitch))
                             \div 1000000,
                         (main_accel_km_s2 * SinMilli(euler1.yaw) * CosMilli(euler1.pitch))
                             \div 1000000,
                         (-main_accel_km_s2 * SinMilli(euler1.pitch)) \div 1000>>
        vel1 == [j \in 1..3 |-> s1.velocity[j] + TimesDt(accel_world[j] + GravAccel[j])]
        pos1 == [j \in 1..3 |-> s1.position[j] + TimesDt(vel1[j])]
    IN [s1 EXCEPT !.orientation_deg = euler1.yaw,
                  !.orientation_euler_deg = euler1,
                  !.velocity = vel1,
                  !.position = pos1]

MaxEulerTime == 2
MaxEulerCalls == 3

EulerFleet ==
    <<InstantiateShip(BravoCfg) @@
          [orientation_euler_deg |-> [yaw |-> BravoCfg.orientation_deg, pitch |-> 0,
                                      roll |-> 0]],
      InstantiateShip(AlphaCfg)>>

InitEuler == InitWith({EulerFleet})

EulerTick == sim_time < MaxEulerTime /\ LoopPass

EulerCall(A) == calls < MaxEulerCalls /\ A /\ calls' = calls + 1 /\ UNCHANGED requests

\* a caller of physics_v2 integrates ship k by one dt
PhysicsV2Step(k) ==
    /\ ships' = [ships EXCEPT ![k] = update_ship_physics(ships[k])]
    /\ last' = [op |-> "update_ship_physics", ship_id |-> ships[k].id]
    /\ UNCHANGED <<sim_time, projectiles, next_projectile_id, sensors, running, loop_alive>>

NextEuler ==
    \/ Free(EulerTick)
    \/ \E id \in {"alpha", "bravo"}, rot \in {Num(3000), Num(-50000)} :
          EulerCall(SetHelmInput(id, ListV(<<Num(0), Num(0), Num(500)>>), rot))
    \/ \E k \in DOMAIN EulerFleet : EulerCall(PhysicsV2Step(k))

SpecEuler == InitEuler /\ [][NextEuler]_vars

\* C34: for a ship that carries both orientation_deg and
\* orientation_euler_deg, after every physics update of the ship, by the
\* integrator of the tick or by update_ship_physics, orientation_deg equals
\* orientation_euler_deg.yaw.
C34_OrientationsInSync ==
    [][last'.op \in {"tick", "update_ship_physics"} /\ ships' # ships =>
          \A k \in DOMAIN ships' :
             HasEuler(ships'[k]) =>
                ships'[k].orientation_deg = ships'[k].orientation_euler_deg.yaw]_vars

\* update_ship_physics leaves the ship it integrates with orientation_deg
\* equal to the yaw of its orientation_euler_deg
EulerSyncedByPhysicsV2 ==
    [][last'.op = "update_ship_physics" =>
          \A k \in DOMAIN ships' :
             ships'[k].id = last'.ship_id =>
                /\ HasEuler(ships'[k])
                /\ ships'[k].orientation_deg = ships'[k].orientation_euler_deg.yaw]_vars


(***************************************************************************)
(* kill_vel to its end.  A light ship with a strong drive (20 m/s^2) whose *)
(* config enables kill_vel, from several velocities and headings; the only *)
(* command is set_autopilot_mode enabling kill_vel again.                  *)
(***************************************************************************)
MaxBrakeTime == 6
MaxBrakeCalls == 1

\* slow in the plane, below the stop threshold, straight up, faster
BrakeVelocities == {<<0, -600, 0>>, <<300, 0, 0>>, <<0, 0, 5000>>, <<3000, 0, 0>>}

BrakeHeadings == {90000, 0}

BrakeFleet(v, h) ==
    <<InstantiateShip([AlphaCfg EXCEPT !.velocity = v, !.orientation_deg = h,
                                       !.mass_kg = 50000] @@
                      [autopilot |-> [enabled |-> TRUE, mode |-> "kill_vel",
                                      params |-> EmptyDict]])>>

InitBrake == InitWith({BrakeFleet(v, h) : v \in BrakeVelocities, h \in BrakeHeadings})

BrakeTick == sim_time < MaxBrakeTime /\ LoopPass

BrakeCall(A) == calls < MaxBrakeCalls /\ A /\ calls' = calls + 1 /\ UNCHANGED requests

NextBrake ==
    \/ Free(BrakeTick)
    \/ BrakeCall(SetAutopilotMode("alpha", TRUE, StrV("kill_vel"), EmptyDict))

SpecBrake == InitBrake /\ [][NextBrake]_vars

Speed(ship) == Len3(ship.velocity)

HelmZeroed(ship) ==
    /\ ship.controls.thrust_vector = <<0, 0, 0>>
    /\ ship.controls.rotation_deg_s = [yaw |-> 0, pitch |-> 0, roll |-> 0]

\* C35: a tick that finds a ship with kill_vel enabled below the stop
\* threshold zeroes its thrust and rotation and leaves the autopilot
\* disabled in manual mode; from then on the autopilot pass leaves the ship
\* as it is and the autopilot stays disabled until a set_autopilot_mode
\* command; a tick that finds the speed at or above the threshold leaves
\* kill_vel enabled.
C35_KillVelSelfDisables ==
    [][\A k \in DOMAIN ships :
          /\ last'.op = "tick" /\ KillVelEngaged(ships[k]) /\ Speed(ships[k]) < StopThreshold
                => /\ ~ships'[k].autopilot.enabled
                   /\ ships'[k].autopilot.mode = "manual"
                   /\ HelmZeroed(ships'[k])
          /\ last'.op = "tick" /\ KillVelEngaged(ships[k]) /\ Speed(ships[k]) >= StopThreshold
                => KillVelEngaged(ships'[k])
          /\ last'.op = "tick" /\ ~ships[k].autopilot.enabled
                => /\ _apply_autopilot(ships, projectiles).ships[k] = ships[k]
                   /\ ships'[k].controls.thrust_vector = ships[k].controls.thrust_vector
                   /\ ships'[k].controls.rotation_deg_s = ships[k].controls.rotation_deg_s
          /\ ~ships[k].autopilot.enabled /\ ships'[k].autopilot.enabled
                => last'.op = "set_autopilot_mode"]_vars

\* with no command given, the ship has braked from above the threshold, the
\* autopilot has switched itself off and a later tick has left it so
C35_Witness ==
    /\ calls = 0
    /\ last.op = "tick"
    /\ sim_time = 3 * DT
    /\ ~ships[1].autopilot.enabled
    /\ ships[1].autopilot.mode = "manual"
    /\ HelmZeroed(ships[1])
    /\ Speed(ships[1]) < StopThreshold
    /\ ships[1].velocity = <<0, -400, 0>>


(***************************************************************************)
(* The helm under a manual autopilot: helm commands and autopilot commands *)
(* for "alpha" against the tick, from fleets with and without configured   *)
(* controls.                                                               *)
(***************************************************************************)
MaxManualTime == 2
MaxManualCalls == 2

ManualThrusts ==
    {ListV(<<Num(0), Num(0), Num(500)>>), ListV(<<Num(-3000), Num(200), Num(1500)>>)}

ManualRotations ==
    {Num(3000),
     DictV(("yaw" :> Num(20000)) @@ ("pitch" :> Num(50000)) @@ ("roll" :> Num(-50000)))}

ManualTick == sim_time < MaxManualTime /\ LoopPass

ManualCall(A) == calls < MaxManualCalls /\ A /\ calls' = calls + 1 /\ UNCHANGED requests

NextManual ==
    \/ Free(ManualTick)
    \/ \E tv \in ManualThrusts, rot \in ManualRotations :
          ManualCall(SetHelmInput("alpha", tv, rot))
    \/ \E en \in BOOLEAN, m \in {"manual", "coast"} :
          ManualCall(SetAutopilotMode("alpha", en, StrV(m), EmptyDict))

SpecManual == Init /\ [][NextManual]_vars

\* _apply_autopilot skips the ship
ManualNow(ship) == ~ship.autopilot.enabled \/ ship.autopilot.mode = "manual"

HelmKept(before, after) ==
    /\ after.controls.thrust_vector = before.controls.thrust_vector
    /\ after.controls.rotation_deg_s = before.controls.rotation_deg_s

\* the controls are a value set_helm_input stores: storing them again
\* through set_helm_input leaves them as they are
HelmAsStored(ship) ==
    LET again == set_helm_input(<<ship>>, ship.id,
                                ListV([j \in 1..3 |-> Num(ship.controls.thrust_vector[j])]),
                                DictV(("yaw" :> Num(ship.controls.rotation_deg_s.yaw))
                                      @@ ("pitch" :> Num(ship.controls.rotation_deg_s.pitch))
                                      @@ ("roll" :> Num(ship.controls.rotation_deg_s.roll))),
                                NoMode)
    IN HelmKept(ship, again.ships[1])

HelmAccepted(l, ship) ==
    /\ l.op = "set_helm_input"
    /\ l.ship_id = ship.id
    /\ l.reply # Raised
    /\ "error" \notin DOMAIN l.reply

\* C36: the helm input stored by a successful set_helm_input stays as it is
\* over every tick that finds the ship's autopilot disabled or in manual
\* mode: set_helm_input stores a value the tick's write-back reproduces,
\* such a value is kept by every tick under a disabled or manual autopilot,
\* and set_autopilot_mode does not touch it.
C36_ManualKeepsHelm ==
    [][\A k \in DOMAIN ships :
          /\ HelmAccepted(last', ships'[k]) => HelmAsStored(ships'[k])
          /\ last'.op = "tick" /\ ManualNow(ships[k]) /\ HelmAsStored(ships[k])
                => HelmKept(ships[k], ships'[k])
          /\ last'.op = "set_autopilot_mode" => HelmKept(ships[k], ships'[k])]_vars

\* a helm input beyond the caps was stored clamped, the autopilot is enabled
\* in manual mode, and two ticks later the helm is as stored
C36_Witness ==
    /\ last.op = "tick"
    /\ sim_time = 2 * DT
    /\ ships[1].autopilot.enabled
    /\ ships[1].autopilot.mode = "manual"
    /\ ships[1].controls.thrust_vector = <<-1000, 200, 1000>>
    /\ ships[1].controls.rotation_deg_s = [yaw |-> 10000, pitch |-> 50000, roll |-> -50000]
    /\ ships[1].velocity[1] > 0


(***************************************************************************)
(* The life of a contact.                                                  *)
(***************************************************************************)
\* C37: a detection creates a contact with first_seen_time = last_seen_time
\* = now or refreshes last_seen_time to now, so that in every state every
\* contact has first_seen_time <= last_seen_time.
C37_FirstSeenNotAfterLastSeen ==
    \A k \in ContactKeys(sensors) :
        ContactAt(sensors, k).first_seen_time <= ContactAt(sensors, k).last_seen_time

LifecycleTypes == {"contact_acquired", "contact_updated", "contact_lost"}

\* the event carries the sensing ship and the target_entity_id field of a
\* contact the manager SM tracks for that ship
EventNamesContact(e, SM) ==
    \E k \in ContactKeys(SM) :
        /\ ContactAt(SM, k).sensor_ship_id = e.sensor_ship_id
        /\ ContactAt(SM, k).target_entity_id = e.target_entity_id

\* C38: every contact_acquired, contact_updated and contact_lost event a
\* step appends carries the sensing ship's id and, as target_entity_id, the
\* target_entity_id field of a contact tracked before or after the step.
C38_EventsCarryTargetId ==
    [][\A j \in DOMAIN NewEvents :
          NewEvents[j].type \in LifecycleTypes
              => \/ EventNamesContact(NewEvents[j], sensors)
                 \/ EventNamesContact(NewEvents[j], sensors')]_vars

\* the events of a contact found and refreshed carry its target's id
AcquiredAndUpdatedCarryTargetId ==
    [][\A j \in DOMAIN NewEvents :
          NewEvents[j].type \in {"contact_acquired", "contact_updated"}
              => EventNamesContact(NewEvents[j], sensors')]_vars

\* a contact_lost event carries the key the contact was tracked under
LostCarriesContactKey ==
    [][\A j \in DOMAIN NewEvents :
          NewEvents[j].type = "contact_lost"
              => \E k \in ContactKeys(sensors) \ ContactKeys(sensors') :
                    /\ NewEvents[j].sensor_ship_id = k[1]
                    /\ NewEvents[j].target_entity_id = k[2]
                    /\ k[2] = ContactAt(sensors, k).contact_id
                    /\ k[2] # ContactAt(sensors, k).target_entity_id]_vars

\* the key of the contact a lifecycle event is about: contact_lost carries
\* the key itself, the two other types the target's id
EventContactId(e) ==
    IF e.type = "contact_lost" THEN e.target_entity_id
    ELSE ContactId(e.sensor_ship_id, e.target_entity_id)

SamePair(e, f) ==
    /\ e.sensor_ship_id = f.sensor_ship_id
    /\ EventContactId(e) = EventContactId(f)

\* the lifecycle events of the log before position j about the pair of the
\* event at j
EarlierOfPair(ev, j) ==
    {i \in 1..(j - 1) : ev[i].type \in LifecycleTypes /\ SamePair(ev[i], ev[j])}

\* the pair of the event at j is tracked according to the log before j
TrackedBefore(ev, j) ==
    /\ EarlierOfPair(ev, j) # {}
    /\ LET i == CHOOSE m \in EarlierOfPair(ev, j) : \A n \in EarlierOfPair(ev, j) : n <= m
       IN ev[i].type # "contact_lost"

LifecycleOrdered(ev) ==
    \A j \in DOMAIN ev :
        /\ ev[j].type = "contact_acquired" => ~TrackedBefore(ev, j)
        /\ ev[j].type \in {"contact_updated", "contact_lost"} => TrackedBefore(ev, j)

\* C39: in the event log the lifecycle events of each (sensing ship,
\* target) pair run contact_acquired, any number of contact_updated,
\* contact_lost, and again: no contact_updated or contact_lost for a pair
\* the log does not show as tracked, no contact_acquired for one it does.
C39_LifecycleOrder == LifecycleOrdered(sensors.events)


(***************************************************************************)
(* kill_vel left alone: the ship of SpecBrake with kill_vel enabled, no    *)
(* gravity and no command, from velocities in the plane that the drive     *)
(* cancels within a few ticks and from velocities with a component along   *)
(* the vertical axis.                                                      *)
(***************************************************************************)
MaxDriftTime == 8

\* velocity and heading at the start
DriftStarts ==
    {<<v, h>> : v \in {<<300, 0, 0>>, <<0, 0, 5000>>, <<0, -600, 700>>, <<0, 0, -700>>},
                h \in {0, 90000, 180000}}
    \cup {<<(<<0, -600, 0>>), 90000>>, <<(<<-700, 0, 0>>), 0>>}

InitDrift == InitWith({BrakeFleet(d[1], d[2]) : d \in DriftStarts})

DriftTick == sim_time < MaxDriftTime /\ LoopPass

NextDrift == Free(DriftTick)

SpecDrift == InitDrift /\ [][NextDrift]_vars

\* the loop thread runs for as long as _running holds
SpecDriftFair == SpecDrift /\ WF_vars(Free(DriftTick))

KillVelDone(ship) ==
    /\ ~ship.autopilot.enabled
    /\ Speed(ship) < StopThreshold

\* C40: with kill_vel enabled, no gravity and no further command, the ship
\* eventually has a speed below the stop threshold and the autopilot has
\* disabled itself.
C40_KillVelTerminates == <>KillVelDone(ships[1])

\* no tick changes the velocity along the vertical axis: the drive pushes
\* along the heading, which lies in the plane
VerticalVelocityKept ==
    [][\A k \in DOMAIN ships : ships'[k].velocity[3] = ships[k].velocity[3]]_vars

\* a ship whose vertical speed alone reaches the stop threshold is at or
\* above the threshold with kill_vel engaged in every state
VerticalDriftNeverDone ==
    \A k \in DOMAIN ships :
        Abs(ships[k].velocity[3]) >= StopThreshold
            => KillVelEngaged(ships[k]) /\ Speed(ships[k]) >= StopThreshold

\* the velocities in the plane are cancelled and the autopilot has disabled
\* itself by the third tick
PlanarDriftDone ==
    \A k \in DOMAIN ships :
        ships[k].velocity[3] = 0 /\ sim_time >= 3 * DT => KillVelDone(ships[k])

====
